---- MODULE Spec2Model ----
(***************************************************************************)
(* Model of the service-weaver health-probing engine:                      *)
(*   monitoring.HealthcheckScheduler (scheduler loop, probe runner,        *)
(*   broadcast loop, subscriber set), repository.UpdateServiceStatus /     *)
(*   CreateHealthcheckResult, and api.Handlers.HandleWebSocket.            *)
(* Time is a discrete clock in seconds.                                    *)
(***************************************************************************)
EXTENDS Integers, Sequences, FiniteSets, TLC

\* ---------------------------------------------------------------- bounds
\* BroadcastCap stands for the capacity of h.broadcast (100 in the program),
\* SockCap for the room in a connection's send buffer, MaxStoreErrors for the
\* number of repository calls that fail in one run, ReadBufferLen for the
\* 1024 bytes of the buffer a probe reads into.
NumServices == 1

\* services of the fleet whose probes run side by side
NumFleet == 2
MaxProbes == 2
NumClients == 2
MaxTime == 10
BroadcastCap == 2
SockCap == 1
MaxStoreErrors == 1
MaxStarts == 2
ReadBufferLen == 2

\* ------------------------------------------------------ program constants
TickPeriod == 5

Services == 1..NumServices
ProbeIds == 1..MaxProbes
Clients == 1..NumClients

Nil == -1

StatusUnknown == "unknown"
StatusAlive == "alive"
StatusDead == "dead"
StatusDegraded == "degraded"
StatusChecking == "checking"

\* statuses a probe function can return
ProbeOutcomes == {StatusAlive, StatusDead, StatusDegraded}

\* methods whose probe waits for the peer with no deadline: performSMTPHealthcheck
\* calls smtp.Dial(address), which has no timeout and reads the greeting.
\* (TCP services here carry no send/expect data, so their probe is the
\* DialTimeout alone.)
NoDeadlineMethods == {"SMTP"}

\* methods for which shouldCheck requires a healthcheck URL
URLMethods == {"HTTP", "HTTPS", "WEBSOCKET", "WSS", "GRPC"}

\* probe recipes a service row can carry (host, method, url, polling interval)
ServiceSpecs ==
  { [host |-> "h", method |-> "TCP",  url |-> "",         interval |-> 5],
    [host |-> "h", method |-> "HTTP", url |-> "/healthz", interval |-> 10],
    [host |-> "h", method |-> "HTTP", url |-> "",         interval |-> 5],
    [host |-> "",  method |-> "TCP",  url |-> "",         interval |-> 5],
    [host |-> "h", method |-> "WSS",  url |-> "/ws",      interval |-> 5],
    [host |-> "h", method |-> "SMTP", url |-> "",         interval |-> 5],
    [host |-> "h", method |-> "TCP",  url |-> "",         interval |-> 15] }
  \cup { [host |-> "h", method |-> m, url |-> "", interval |-> 5] : m \in URLMethods }

VARIABLES
  now,          \* wall clock, seconds
  started,      \* Start() has been called
  starts,       \* history: number of calls of Start()
  cancelled,    \* h.ctx is cancelled (Stop() has been called)
  tickPending,  \* a tick is waiting in ticker.C
  schedPc,      \* scheduleHealthchecks goroutine: "off" | "run" | "done" | "dead"
  twin,         \* the two goroutines of a Start() called while the first run
                \* is alive: sched, bh ("off" | "run") and the tick waiting
                \* in the second ticker.C
  services,     \* the services table: spec fields + current_status, last_checked
  probes,       \* performHealthcheck goroutines, by invocation id
  nextInv,      \* id of the next invocation to dispatch
  results,      \* the healthcheck_results table (append-only)
  broadcast,    \* h.broadcast, the buffered channel of StatusUpdates
  bhPc,         \* broadcastHandler goroutine: "off" | "recv" | "iter" | "done" | "dead"
  bhUpd,        \* the update broadcastHandler is writing
  bhTodo,       \* clients the range loop has still to visit
  bhStart,      \* clients registered when the range loop began (history)
  clients,      \* h.clients
  conn,         \* connection state: "none" | "open" | "broken" | "closed"
  adapter,      \* HandleWebSocket goroutine: "idle" | "reading" | "done"
  sockFill,     \* frames written to the connection and not yet read by the peer
  written,      \* history: updates WriteJSON has written to each connection
  failedOn,     \* history: sequence number of the update whose write failed, per connection
  nAccepted,    \* history: number of updates the channel has accepted so far
  lateSends,    \* history: outcomes of the sends made after broadcastHandler returned
  errBudget     \* environment: repository calls that may still fail

vars == << now, started, starts, cancelled, tickPending, schedPc, twin, services, probes,
           nextInv, results, broadcast, bhPc, bhUpd, bhTodo, bhStart, clients,
           conn, adapter, sockFill, written, failedOn, nAccepted, lateSends,
           errBudget >>

schedVars == << started, starts, cancelled, tickPending, schedPc, twin >>

NoTwin == [sched |-> "off", bh |-> "off", tick |-> FALSE]
hubVars == << bhPc, bhUpd, bhTodo, bhStart >>
clientVars == << clients, conn, adapter, sockFill, written, failedOn >>

\* a StatusUpdate; inv (the invocation that published it) and n (its position
\* in the order the channel accepted updates) are history fields
NoUpdate == [service_id |-> 0, status |-> StatusUnknown, inv |-> 0, n |-> 0]


\* a performHealthcheck goroutine: its position, the service copy it was given
\* (sid, prevStatus, prevChecked), the time of its dispatch (at, history), the
\* status its probe returned, and the
\* outcome of its two updateServiceStatus calls (history): the repository call
\* ("none" | "ok" | "fail") and the channel send ("none" | "accepted" | "dropped")
IdleProbe == [pc |-> "idle", sid |-> 0, at |-> Nil, status |-> "none",
              prevStatus |-> "none", prevChecked |-> Nil,
              chkStore |-> "none", chkSend |-> "none",
              finStore |-> "none", finSend |-> "none"]

\* the scheduler as NewHealthcheckScheduler leaves it: no goroutine yet
Idle ==
  /\ now = 0
  /\ started = FALSE
  /\ starts = 0
  /\ cancelled = FALSE
  /\ tickPending = FALSE
  /\ schedPc = "off"
  /\ twin = NoTwin
  /\ bhPc = "off"

\* after the one Start() of main(): both goroutines are in their select
Running ==
  /\ now = 0
  /\ started = TRUE
  /\ starts = 1
  /\ cancelled = FALSE
  /\ tickPending = FALSE
  /\ schedPc = "run"
  /\ twin = NoTwin
  /\ bhPc = "recv"

\* no probe dispatched, nothing published, no viewer
Quiet ==
  /\ services \in [Services -> { [host |-> sp.host, method |-> sp.method,
                                  url |-> sp.url, interval |-> sp.interval,
                                  current_status |-> StatusUnknown,
                                  last_checked |-> Nil] : sp \in ServiceSpecs }]
  /\ probes = [p \in ProbeIds |-> IdleProbe]
  /\ nextInv = 1
  /\ results = << >>
  /\ broadcast = << >>
  /\ bhUpd = NoUpdate
  /\ bhTodo = {}
  /\ bhStart = {}
  /\ clients = {}
  /\ conn = [c \in Clients |-> "none"]
  /\ adapter = [c \in Clients |-> "idle"]
  /\ sockFill = [c \in Clients |-> 0]
  /\ written = [c \in Clients |-> << >>]
  /\ failedOn = [c \in Clients |-> 0]
  /\ nAccepted = 0
  /\ lateSends = {}

Init == Idle /\ Quiet /\ errBudget = MaxStoreErrors

\* ------------------------------------------------------------ lifecycle

\* Start(): go broadcastHandler(); go scheduleHealthchecks().  main() calls it
\* once, right after the constructor.
Start ==
  /\ ~started
  /\ started' = TRUE
  /\ starts' = starts + 1
  /\ bhPc' = "recv"
  /\ schedPc' = "run"
  /\ UNCHANGED << now, cancelled, tickPending, twin, services, probes, nextInv,
                  results, broadcast, bhUpd, bhTodo, bhStart, clientVars, nAccepted, lateSends, errBudget >>

\* Stop(): h.cancel() and nothing else.
Stop ==
  /\ started
  /\ ~cancelled
  /\ cancelled' = TRUE
  /\ UNCHANGED << now, started, starts, twin, tickPending, schedPc, services, probes, nextInv,
                  results, broadcast, hubVars, clientVars, nAccepted, lateSends, errBudget >>

\* Start() called again after Stop(), once the goroutines of the first run
\* have returned: two new goroutines over the same h.ctx, which stays cancelled
\* (the context is made once, in NewHealthcheckScheduler)
Restart ==
  /\ started
  /\ cancelled
  /\ schedPc = "done"
  /\ bhPc = "done"
  /\ starts < MaxStarts
  /\ starts' = starts + 1
  /\ schedPc' = "run"
  /\ bhPc' = "recv"
  /\ UNCHANGED << now, started, cancelled, tickPending, twin, services, probes, nextInv,
                  results, broadcast, bhUpd, bhTodo, bhStart, clientVars,
                  nAccepted, lateSends, errBudget >>

\* The clock is sampled at every tick instant and one second after it.
NextInstant(t) == IF t % TickPeriod = 0 THEN t + 1
                  ELSE t + (TickPeriod - (t % TickPeriod))

\* Time passes; the ticker drops a tick into ticker.C (capacity 1)
\* every TickPeriod seconds while the scheduler goroutine lives.
Tock ==
  /\ NextInstant(now) <= MaxTime
  /\ now' = NextInstant(now)
  /\ tickPending' = IF schedPc = "run" /\ NextInstant(now) % TickPeriod = 0
                    THEN TRUE ELSE tickPending
  /\ twin' = IF twin.sched = "run" /\ NextInstant(now) % TickPeriod = 0
             THEN [twin EXCEPT !.tick = TRUE] ELSE twin
  /\ UNCHANGED << started, starts, cancelled, schedPc, services, probes, nextInv,
                  results, broadcast, hubVars, clientVars, nAccepted, lateSends, errBudget >>

\* ------------------------------------------------------------ scheduler

\* faulty variant: the interval has to be exceeded, not reached
shouldCheckLate(service, t) ==
  IF service.host = "" THEN FALSE
  ELSE IF service.method \in URLMethods /\ service.url = "" THEN FALSE
  ELSE IF service.last_checked = Nil THEN TRUE
  ELSE t - service.last_checked > service.interval

shouldCheck(service, t) ==
  IF service.host = "" THEN FALSE
  ELSE IF service.method \in URLMethods /\ service.url = "" THEN FALSE
  ELSE IF service.last_checked = Nil THEN TRUE
  ELSE t - service.last_checked >= service.interval

\* the services a tick dispatches, from the snapshot GetAllServices returned
Due(snapshot, t) == { s \in Services : shouldCheck(snapshot[s], t) }

\* position of service s among the dispatched ones (range order of the slice)
Rank(due, s) == Cardinality({ r \in due : r < s })

\* case <-ticker.C with a successful GetAllServices: one goroutine per due service
Tick ==
  /\ schedPc = "run"
  /\ tickPending
  /\ LET due == Due(services, now) IN
     /\ nextInv + Cardinality(due) - 1 <= MaxProbes
     /\ probes' = [p \in ProbeIds |->
          IF \E s \in due : nextInv + Rank(due, s) = p
          THEN LET s == CHOOSE s \in due : nextInv + Rank(due, s) = p IN
               [pc |-> "chk_db", sid |-> s, at |-> now, status |-> "none",
                prevStatus |-> services[s].current_status,
                prevChecked |-> services[s].last_checked,
                chkStore |-> "none", chkSend |-> "none",
                finStore |-> "none", finSend |-> "none"]
          ELSE probes[p]]
     /\ nextInv' = nextInv + Cardinality(due)
  /\ tickPending' = FALSE
  /\ UNCHANGED << now, started, starts, twin, cancelled, schedPc, services, results,
                  broadcast, hubVars, clientVars, nAccepted, lateSends, errBudget >>

\* faulty variant: a failed store read ends the scheduler loop
TickStoreErrorReturns ==
  /\ schedPc = "run"
  /\ tickPending
  /\ errBudget > 0
  /\ errBudget' = errBudget - 1
  /\ tickPending' = FALSE
  /\ schedPc' = "done"
  /\ UNCHANGED << now, started, starts, twin, cancelled, services, probes, nextInv,
                  results, broadcast, hubVars, clientVars, nAccepted, lateSends >>

\* case <-ticker.C when GetAllServices returns an error: log and continue
TickStoreError ==
  /\ schedPc = "run"
  /\ tickPending
  /\ errBudget > 0
  /\ errBudget' = errBudget - 1
  /\ tickPending' = FALSE
  /\ UNCHANGED << now, started, starts, twin, cancelled, schedPc, services, probes, nextInv,
                  results, broadcast, hubVars, clientVars, nAccepted, lateSends >>

\* case <-h.ctx.Done(): return
SchedExit ==
  /\ schedPc = "run"
  /\ cancelled
  /\ schedPc' = "done"
  /\ tickPending' = FALSE
  /\ UNCHANGED << now, started, starts, twin, cancelled, services, probes, nextInv, results,
                  broadcast, hubVars, clientVars, nAccepted, lateSends, errBudget >>

\* --------------------------------------------------------- probe runner

InFlight(p) == probes[p].pc \notin {"idle", "done", "panicked", "killed"}

\* faulty variants: the early return is missing / the send is missing
AfterStoreUpdateNoReturn(ok, pubPc, returnPc) == pubPc

AfterStoreUpdateNoSend(ok, pubPc, returnPc) == returnPc

\* updateServiceStatus, line 1136-1139: publish only when the store update
\* succeeded, otherwise log and return
AfterStoreUpdate(ok, pubPc, returnPc) == IF ok THEN pubPc ELSE returnPc

\* faulty variant: the UPDATE has no WHERE clause
WhereAnyId(tbl, serviceID) == DOMAIN tbl

\* WHERE id = $2: the rows of the table the statement applies to; none when
\* the service has been deleted, and the statement then succeeds on no row
WhereId(tbl, serviceID) == { r \in DOMAIN tbl : r = serviceID }

\* faulty variant: the row is marked alive whatever the status
UpdateServiceStatusAlive(tbl, serviceID, status, t) ==
  [r \in DOMAIN tbl |->
     IF r \in WhereId(tbl, serviceID)
     THEN [tbl[r] EXCEPT !.current_status = StatusAlive, !.last_checked = t]
     ELSE tbl[r]]

\* UPDATE services SET current_status = $1, last_checked = CURRENT_TIMESTAMP
\* WHERE id = $2
UpdateServiceStatus(tbl, serviceID, status, t) ==
  [r \in DOMAIN tbl |->
     IF r \in WhereId(tbl, serviceID)
     THEN [tbl[r] EXCEPT !.current_status = status, !.last_checked = t]
     ELSE tbl[r]]

\* DELETE FROM services WHERE id = $1
DeleteFrom(tbl, id) == [r \in DOMAIN tbl \ {id} |-> tbl[r]]

\* healthcheck_results: FOREIGN KEY (service_id) REFERENCES services(id)
ForeignKeyHolds(tbl, serviceID) == serviceID \in DOMAIN tbl

\* ... ON DELETE CASCADE: the rows of the deleted service go with it
Cascade(rows, id) == SelectSeq(rows, LAMBDA row : row.service_id # id)

\* faulty variants: a full channel evicts its oldest update / the update jumps the queue
EnqueueDropOldest(q, u) == IF Len(q) < BroadcastCap THEN Append(q, u)
                           ELSE Append(Tail(q), u)

EnqueueFront(q, u) == IF Len(q) < BroadcastCap THEN << u >> \o q ELSE q

\* select { case h.broadcast <- update: default: drop }
Enqueue(q, u) == IF Len(q) < BroadcastCap THEN Append(q, u) ELSE q

\* record the outcome of the repository call / of the send in the goroutine's history
Stored(pr, status, outcome) ==
  IF status = StatusChecking THEN [pr EXCEPT !.chkStore = outcome]
                             ELSE [pr EXCEPT !.finStore = outcome]

Sent(pr, status, outcome) ==
  IF status = StatusChecking THEN [pr EXCEPT !.chkSend = outcome]
                             ELSE [pr EXCEPT !.finSend = outcome]

\* first half of updateServiceStatus: the repository call
StoreStep(p, atPc, status, pubPc, returnPc) ==
  /\ probes[p].pc = atPc
  /\ \E ok \in BOOLEAN :
       /\ ok \/ errBudget > 0
       /\ errBudget' = IF ok THEN errBudget ELSE errBudget - 1
       /\ services' = IF ok
                      THEN UpdateServiceStatus(services, probes[p].sid, status, now)
                      ELSE services
       /\ probes' = [probes EXCEPT ![p] =
            [Stored(@, status, IF ok THEN "ok" ELSE "fail")
               EXCEPT !.pc = AfterStoreUpdate(ok, pubPc, returnPc)]]
  /\ UNCHANGED << now, schedVars, nextInv, results, broadcast, hubVars, clientVars,
                  nAccepted, lateSends >>

\* second half of updateServiceStatus: the non-blocking send
PublishStep(p, atPc, status, nextPc) ==
  /\ probes[p].pc = atPc
  /\ LET update == [service_id |-> probes[p].sid, status |-> status,
                    inv |-> p, n |-> nAccepted + 1]
         outcome == IF Enqueue(broadcast, update) = broadcast
                    THEN "dropped" ELSE "accepted" IN
     /\ broadcast' = Enqueue(broadcast, update)
     /\ nAccepted' = IF outcome = "accepted" THEN nAccepted + 1 ELSE nAccepted
     /\ lateSends' = IF bhPc = "done" THEN lateSends \cup {outcome} ELSE lateSends
     /\ probes' = [probes EXCEPT ![p] = [Sent(@, status, outcome) EXCEPT !.pc = nextPc]]
  /\ UNCHANGED << now, schedVars, services, nextInv, results, hubVars, clientVars,
                  errBudget >>

\* h.updateServiceStatus(service.ID, models.StatusChecking)
CheckingStore(p) == StoreStep(p, "chk_db", StatusChecking, "chk_pub", "probe")
CheckingPublish(p) == PublishStep(p, "chk_pub", StatusChecking, "probe")

\* the switch on HealthcheckMethod: the protocol probe runs and returns
ProbeReturn(p) ==
  /\ probes[p].pc = "probe"
  /\ \E st \in ProbeOutcomes :
       probes' = [probes EXCEPT ![p].pc = "save", ![p].status = st]
  /\ UNCHANGED << now, schedVars, services, nextInv, results, broadcast,
                  hubVars, clientVars, nAccepted, lateSends, errBudget >>

\* the peer accepts the connection and never answers: a probe without a
\* deadline waits in its read for ever
ProbeHang(p) ==
  /\ probes[p].pc = "probe"
  /\ services[probes[p].sid].method \in NoDeadlineMethods
  /\ probes' = [probes EXCEPT ![p].pc = "blocked"]
  /\ UNCHANGED << now, schedVars, services, nextInv, results, broadcast,
                  hubVars, clientVars, nAccepted, lateSends, errBudget >>

\* the probe function panics: performHealthcheck runs in its own goroutine
\* and defers no recover, so the Go runtime ends the process and with it the
\* scheduler loop, the broadcast loop and every other probe
ProbePanic(p) ==
  /\ probes[p].pc = "probe"
  /\ probes' = [q \in ProbeIds |->
       IF q = p THEN [probes[q] EXCEPT !.pc = "panicked"]
       ELSE IF InFlight(q) THEN [probes[q] EXCEPT !.pc = "killed"]
       ELSE probes[q]]
  /\ schedPc' = "dead"
  /\ bhPc' = "dead"
  /\ tickPending' = FALSE
  /\ UNCHANGED << now, started, starts, twin, cancelled, services, nextInv, results,
                  broadcast, bhUpd, bhTodo, bhStart, clientVars, nAccepted,
                  lateSends, errBudget >>

\* faulty variant: a failed insert ends the invocation
AfterSaveResultAbort(ok) == IF ok THEN "fin_db" ELSE "done"

\* lines 363-368: whether the insert succeeded or not, the invocation goes on
\* to the terminal updateServiceStatus
AfterSaveResult(ok) == "fin_db"

\* h.repo.CreateHealthcheckResult(result); an error is only logged.  The
\* INSERT names no checked_at: the column takes its default, CURRENT_TIMESTAMP
SaveResult(p) ==
  /\ probes[p].pc = "save"
  /\ \E ok \in BOOLEAN :
       /\ ok => ForeignKeyHolds(services, probes[p].sid)
       /\ ok \/ errBudget > 0 \/ ~ForeignKeyHolds(services, probes[p].sid)
       /\ errBudget' = IF ok \/ ~ForeignKeyHolds(services, probes[p].sid)
                       THEN errBudget ELSE errBudget - 1
       /\ results' = IF ok
                     THEN Append(results, [service_id |-> probes[p].sid,
                                           status |-> probes[p].status,
                                           checked_at |-> now,
                                           inv |-> p])
                     ELSE results
       /\ probes' = [probes EXCEPT ![p].pc = AfterSaveResult(ok)]
  /\ UNCHANGED << now, schedVars, services, nextInv, broadcast, hubVars,
                  clientVars, nAccepted, lateSends >>

\* h.updateServiceStatus(service.ID, status)
TerminalStore(p) == StoreStep(p, "fin_db", probes[p].status, "fin_pub", "done")
TerminalPublish(p) == PublishStep(p, "fin_pub", probes[p].status, "done")

\* ------------------------------------------------------------ broadcast loop

\* faulty variant: the newest update is taken first
DequeueNewest(q) == [update |-> q[Len(q)], rest |-> SubSeq(q, 1, Len(q) - 1)]

\* case update := <-h.broadcast: the channel is first-in first-out
Dequeue(q) == [update |-> Head(q), rest |-> Tail(q)]

\* faulty variant: a failed write ends the range loop
AbortOnWriteError(todo, c) == {}

\* after a failed WriteJSON the range loop goes on with the remaining clients
AfterWriteError(todo, c) == todo \ {c}

\* broadcastHandler holds clientsMu.RLock while it ranges over h.clients
RLockHeld == bhPc = "iter"

BhReceive ==
  /\ bhPc = "recv"
  /\ broadcast # << >>
  /\ bhUpd' = Dequeue(broadcast).update
  /\ broadcast' = Dequeue(broadcast).rest
  /\ bhPc' = "iter"
  /\ bhTodo' = clients
  /\ bhStart' = clients
  /\ UNCHANGED << now, schedVars, services, probes, nextInv, results,
                  clientVars, nAccepted, lateSends, errBudget >>

\* client.WriteJSON(update) returns nil: needs room in the connection's send
\* buffer, otherwise the call blocks (no write deadline is set)
BhWriteOk(c) ==
  /\ bhPc = "iter"
  /\ c \in bhTodo
  /\ conn[c] = "open"
  /\ sockFill[c] < SockCap
  /\ sockFill' = [sockFill EXCEPT ![c] = @ + 1]
  /\ written' = [written EXCEPT ![c] = Append(@, bhUpd)]
  /\ bhTodo' = bhTodo \ {c}
  /\ UNCHANGED << now, schedVars, services, probes, nextInv, results, broadcast,
                  bhPc, bhUpd, bhStart, clients, conn, adapter, failedOn, nAccepted, lateSends, errBudget >>

\* client.WriteJSON(update) returns an error: client.Close(); delete(h.clients, client)
BhWriteErr(c) ==
  /\ bhPc = "iter"
  /\ c \in bhTodo
  /\ conn[c] \in {"broken", "closed"}
  /\ failedOn' = [failedOn EXCEPT ![c] = bhUpd.n]
  /\ conn' = [conn EXCEPT ![c] = "closed"]
  /\ clients' = clients \ {c}
  /\ bhTodo' = AfterWriteError(bhTodo, c)
  /\ UNCHANGED << now, schedVars, services, probes, nextInv, results, broadcast,
                  bhPc, bhUpd, bhStart, adapter, sockFill, written, nAccepted, lateSends, errBudget >>

\* end of the range loop: h.clientsMu.RUnlock()
BhIterDone ==
  /\ bhPc = "iter"
  /\ bhTodo = {}
  /\ bhPc' = "recv"
  /\ bhUpd' = NoUpdate
  /\ UNCHANGED << now, schedVars, services, probes, nextInv, results, broadcast,
                  bhTodo, bhStart, clientVars, nAccepted, lateSends, errBudget >>

\* case <-h.ctx.Done(): return
BhExit ==
  /\ bhPc = "recv"
  /\ cancelled
  /\ bhPc' = "done"
  /\ UNCHANGED << now, schedVars, services, probes, nextInv, results, broadcast,
                  bhUpd, bhTodo, bhStart, clientVars, nAccepted, lateSends, errBudget >>

\* ------------------------------------------------------- transport adapter

\* HandleWebSocket up to its read loop: h.upgrader.Upgrade succeeds, then
\* AddClient: Lock; h.clients[conn] = true; Unlock.  (A failed Upgrade returns
\* without touching the scheduler.)  Connections are numbered in the order
\* they are accepted.
Attach(c) ==
  /\ adapter[c] = "idle"
  /\ \A d \in Clients : d < c => adapter[d] # "idle"
  /\ ~RLockHeld
  /\ conn' = [conn EXCEPT ![c] = "open"]
  /\ clients' = clients \cup {c}
  /\ adapter' = [adapter EXCEPT ![c] = "reading"]
  /\ UNCHANGED << now, schedVars, services, probes, nextInv, results, broadcast,
                  hubVars, sockFill, written, failedOn, nAccepted, lateSends,
                  errBudget >>

\* conn.ReadMessage() returns an error: break; the deferred RemoveClient runs:
\* Lock; delete(h.clients, conn); Unlock; conn.Close()
RemoveClient(c) ==
  /\ adapter[c] = "reading"
  /\ conn[c] \in {"broken", "closed"}
  /\ ~RLockHeld
  /\ clients' = clients \ {c}
  /\ conn' = [conn EXCEPT ![c] = "closed"]
  /\ adapter' = [adapter EXCEPT ![c] = "done"]
  /\ UNCHANGED << now, schedVars, services, probes, nextInv, results, broadcast,
                  hubVars, sockFill, written, failedOn, nAccepted, lateSends,
                  errBudget >>

\* ------------------------------------------------------------- environment

\* the peer closes the connection, or the network drops it; what was still
\* buffered is discarded
ConnBreak(c) ==
  /\ conn[c] = "open"
  /\ conn' = [conn EXCEPT ![c] = "broken"]
  /\ sockFill' = [sockFill EXCEPT ![c] = 0]
  /\ UNCHANGED << now, schedVars, services, probes, nextInv, results, broadcast,
                  hubVars, clients, adapter, written, failedOn, nAccepted, lateSends, errBudget >>

\* the peer reads one frame from its connection
PeerRead(c) ==
  /\ conn[c] = "open"
  /\ sockFill[c] > 0
  /\ sockFill' = [sockFill EXCEPT ![c] = @ - 1]
  /\ UNCHANGED << now, schedVars, services, probes, nextInv, results, broadcast,
                  hubVars, clients, conn, adapter, written, failedOn,
                  nAccepted, lateSends, errBudget >>

\* ------------------------------------------------------------ specification

\* the engine with no viewer connected: scheduler, probe runners, store and
\* the broadcast loop draining the channel
NextSched ==
  \/ Start
  \/ Stop
  \/ Tock
  \/ Tick
  \/ TickStoreError
  \/ SchedExit
  \/ \E p \in ProbeIds : CheckingStore(p)
  \/ \E p \in ProbeIds : CheckingPublish(p)
  \/ \E p \in ProbeIds : ProbeReturn(p)
  \/ \E p \in ProbeIds : ProbeHang(p)
  \/ \E p \in ProbeIds : SaveResult(p)
  \/ \E p \in ProbeIds : TerminalStore(p)
  \/ \E p \in ProbeIds : TerminalPublish(p)
  \/ BhReceive
  \/ BhIterDone
  \/ BhExit

SpecSched == Init /\ [][NextSched]_vars

\* the same engine driven by a caller that calls Start() again after Stop()
NextRestart ==
  \/ NextSched
  \/ Restart

SpecRestart == Init /\ [][NextRestart]_vars

\* the same engine with probe functions that may panic
NextFault ==
  \/ NextSched
  \/ \E p \in ProbeIds : ProbePanic(p)

SpecFault == Init /\ [][NextFault]_vars

\* A service probed every TickPeriod seconds, and a service that is never probed
QuickSpec == [host |-> "h", method |-> "TCP", url |-> "", interval |-> TickPeriod]
IdleSpec == [host |-> "", method |-> "TCP", url |-> "", interval |-> TickPeriod]

\* The state at the instant of the second tick, with no viewer connected yet:
\* the first tick dispatched a probe of service 1, which stored and published
\* Checking (the broadcast loop has consumed that update) and whose protocol
\* probe is still running.
HubStart ==
  /\ now = 2 * TickPeriod
  /\ started = TRUE
  /\ starts = 1
  /\ cancelled = FALSE
  /\ tickPending = TRUE
  /\ schedPc = "run"
  /\ twin = NoTwin
  /\ services = [s \in Services |->
       IF s = 1
       THEN [host |-> QuickSpec.host, method |-> QuickSpec.method,
             url |-> QuickSpec.url, interval |-> QuickSpec.interval,
             current_status |-> StatusChecking, last_checked |-> TickPeriod]
       ELSE [host |-> IdleSpec.host, method |-> IdleSpec.method,
             url |-> IdleSpec.url, interval |-> IdleSpec.interval,
             current_status |-> StatusUnknown, last_checked |-> Nil]]
  /\ probes = [p \in ProbeIds |->
       IF p = 1
       THEN [pc |-> "probe", sid |-> 1, at |-> TickPeriod, status |-> "none",
             prevStatus |-> StatusUnknown, prevChecked |-> Nil,
             chkStore |-> "ok", chkSend |-> "accepted",
             finStore |-> "none", finSend |-> "none"]
       ELSE IdleProbe]
  /\ nextInv = 2
  /\ results = << >>
  /\ broadcast = << >>
  /\ bhPc = "recv"
  /\ bhUpd = NoUpdate
  /\ bhTodo = {}
  /\ bhStart = {}
  /\ clients = {}
  /\ conn = [c \in Clients |-> "none"]
  /\ adapter = [c \in Clients |-> "idle"]
  /\ sockFill = [c \in Clients |-> 0]
  /\ written = [c \in Clients |-> << >>]
  /\ failedOn = [c \in Clients |-> 0]
  /\ nAccepted = 1
  /\ lateSends = {}

InitHub == HubStart /\ errBudget = MaxStoreErrors

\* the engine and its viewers around one tick: the running probe and the one
\* this tick dispatches publish while viewers attach, read, stall and disconnect
NextHub ==
  \/ Tick
  \/ \E p \in ProbeIds : CheckingStore(p)
  \/ \E p \in ProbeIds : CheckingPublish(p)
  \/ \E p \in ProbeIds : ProbeReturn(p)
  \/ \E p \in ProbeIds : SaveResult(p)
  \/ \E p \in ProbeIds : TerminalStore(p)
  \/ \E p \in ProbeIds : TerminalPublish(p)
  \/ BhReceive
  \/ \E c \in Clients : BhWriteOk(c)
  \/ \E c \in Clients : BhWriteErr(c)
  \/ BhIterDone
  \/ \E c \in Clients : Attach(c)
  \/ \E c \in Clients : RemoveClient(c)
  \/ \E c \in Clients : ConnBreak(c)
  \/ \E c \in Clients : PeerRead(c)

SpecHub == InitHub /\ [][NextHub]_vars

\* the same, with a healthy store (no repository call fails) and with Stop()
InitStop == HubStart /\ errBudget = 0

NextStop ==
  \/ NextHub
  \/ Stop
  \/ SchedExit
  \/ BhExit

SpecStop == InitStop /\ [][NextStop]_vars

\* Handlers.DeleteService: h.repo.DeleteService(id) while the engine runs
DeleteService(s) ==
  /\ s \in DOMAIN services
  /\ services' = DeleteFrom(services, s)
  /\ results' = Cascade(results, s)
  /\ UNCHANGED << now, schedVars, probes, nextInv, broadcast, hubVars,
                  clientVars, nAccepted, lateSends, errBudget >>

\* The state right after a tick that found every service of a fleet due: one
\* probe per service has been dispatched and none has taken a step yet; one
\* viewer is attached.
FleetStart ==
  /\ now = TickPeriod
  /\ started = TRUE
  /\ starts = 1
  /\ cancelled = FALSE
  /\ tickPending = FALSE
  /\ schedPc = "run"
  /\ twin = NoTwin
  /\ services = [s \in 1..NumFleet |->
       [host |-> QuickSpec.host, method |-> QuickSpec.method,
        url |-> QuickSpec.url, interval |-> QuickSpec.interval,
        current_status |-> StatusUnknown, last_checked |-> Nil]]
  /\ probes = [p \in ProbeIds |->
       IF p <= NumFleet
       THEN [pc |-> "chk_db", sid |-> p, at |-> TickPeriod, status |-> "none",
             prevStatus |-> StatusUnknown, prevChecked |-> Nil,
             chkStore |-> "none", chkSend |-> "none",
             finStore |-> "none", finSend |-> "none"]
       ELSE IdleProbe]
  /\ nextInv = NumFleet + 1
  /\ results = << >>
  /\ broadcast = << >>
  /\ bhPc = "recv"
  /\ bhUpd = NoUpdate
  /\ bhTodo = {}
  /\ bhStart = {}
  /\ clients = {1}
  /\ conn = [c \in Clients |-> IF c = 1 THEN "open" ELSE "none"]
  /\ adapter = [c \in Clients |-> IF c = 1 THEN "reading" ELSE "idle"]
  /\ sockFill = [c \in Clients |-> 0]
  /\ written = [c \in Clients |-> << >>]
  /\ failedOn = [c \in Clients |-> 0]
  /\ nAccepted = 0
  /\ lateSends = {}

InitFleet == FleetStart /\ errBudget = MaxStoreErrors

\* the same with a store that never fails
InitAttach == FleetStart /\ errBudget = 0

\* the probes of the fleet run side by side while the viewer reads, stalls or
\* loses its connection and services are deleted through the API
NextFleet ==
  \/ \E p \in ProbeIds : CheckingStore(p)
  \/ \E p \in ProbeIds : CheckingPublish(p)
  \/ \E p \in ProbeIds : ProbeReturn(p)
  \/ \E p \in ProbeIds : SaveResult(p)
  \/ \E p \in ProbeIds : TerminalStore(p)
  \/ \E p \in ProbeIds : TerminalPublish(p)
  \/ BhReceive
  \/ \E c \in Clients : BhWriteOk(c)
  \/ \E c \in Clients : BhWriteErr(c)
  \/ BhIterDone
  \/ \E c \in Clients : ConnBreak(c)
  \/ \E c \in Clients : PeerRead(c)
  \/ \E s \in 1..NumFleet : DeleteService(s)

SpecFleet == InitFleet /\ [][NextFleet]_vars

\* HandleWebSocket in two steps, for the time a handler spends inside
\* AddClient.  h.upgrader.Upgrade succeeds and AddClient is called:
Upgrade(c) ==
  /\ adapter[c] = "idle"
  /\ \A d \in Clients : d < c => adapter[d] # "idle"
  /\ conn' = [conn EXCEPT ![c] = "open"]
  /\ adapter' = [adapter EXCEPT ![c] = "adding"]
  /\ UNCHANGED << now, schedVars, services, probes, nextInv, results, broadcast,
                  hubVars, clients, sockFill, written, failedOn, nAccepted,
                  lateSends, errBudget >>

\* h.clientsMu.Lock() is granted when no reader holds the lock
AddClientMayEnter == ~RLockHeld

\* AddClient: Lock; h.clients[conn] = true; Unlock; the handler goes on to
\* its read loop
AddClient(c) ==
  /\ adapter[c] = "adding"
  /\ AddClientMayEnter
  /\ clients' = clients \cup {c}
  /\ adapter' = [adapter EXCEPT ![c] = "reading"]
  /\ UNCHANGED << now, schedVars, services, probes, nextInv, results, broadcast,
                  hubVars, conn, sockFill, written, failedOn, nAccepted,
                  lateSends, errBudget >>

\* the probes of the fleet publish while one viewer is attached and further
\* viewers connect, read, stall and disconnect
NextAttach ==
  \/ \E p \in ProbeIds : CheckingStore(p)
  \/ \E p \in ProbeIds : CheckingPublish(p)
  \/ \E p \in ProbeIds : ProbeReturn(p)
  \/ \E p \in ProbeIds : SaveResult(p)
  \/ \E p \in ProbeIds : TerminalStore(p)
  \/ \E p \in ProbeIds : TerminalPublish(p)
  \/ BhReceive
  \/ \E c \in Clients : BhWriteOk(c)
  \/ \E c \in Clients : BhWriteErr(c)
  \/ BhIterDone
  \/ \E c \in Clients : Upgrade(c)
  \/ \E c \in Clients : AddClient(c)
  \/ \E c \in Clients : RemoveClient(c)
  \/ \E c \in Clients : ConnBreak(c)
  \/ \E c \in Clients : PeerRead(c)

\* The broadcast loop and the handlers' calls into the scheduler take every
\* step they can take.  Nothing obliges a peer to read or a connection to
\* break.
FairSpecAttach ==
  /\ InitAttach
  /\ [][NextAttach]_vars
  /\ WF_vars(BhReceive)
  /\ WF_vars(BhIterDone)
  /\ \A c \in Clients :
       /\ WF_vars(BhWriteOk(c))
       /\ WF_vars(BhWriteErr(c))
       /\ WF_vars(AddClient(c))
       /\ WF_vars(RemoveClient(c))

\* the last period of a run: the probes of the fleet are in flight when the
\* owner calls Stop() (main.go defers it); the loops exit, the probe
\* goroutines are not tied to h.ctx and run to their end
NextShutdown ==
  \/ Stop
  \/ SchedExit
  \/ BhExit
  \/ \E p \in ProbeIds : CheckingStore(p)
  \/ \E p \in ProbeIds : CheckingPublish(p)
  \/ \E p \in ProbeIds : ProbeReturn(p)
  \/ \E p \in ProbeIds : SaveResult(p)
  \/ \E p \in ProbeIds : TerminalStore(p)
  \/ \E p \in ProbeIds : TerminalPublish(p)
  \/ BhReceive
  \/ \E c \in Clients : BhWriteOk(c)
  \/ BhIterDone
  \/ \E c \in Clients : PeerRead(c)

\* Every goroutine that can take a step takes it (the Go scheduler is fair to
\* runnable goroutines, a repository call returns, a probe with a deadline
\* returns), and Stop() is called.
FairSpecShutdown ==
  /\ InitFleet
  /\ [][NextShutdown]_vars
  /\ WF_vars(Stop)
  /\ WF_vars(SchedExit)
  /\ \A p \in ProbeIds :
       /\ WF_vars(CheckingStore(p))
       /\ WF_vars(CheckingPublish(p))
       /\ WF_vars(ProbeReturn(p))
       /\ WF_vars(SaveResult(p))
       /\ WF_vars(TerminalStore(p))
       /\ WF_vars(TerminalPublish(p))

\* Start() called while goroutines of the first call are alive: Start() tests
\* nothing, it spawns a second broadcastHandler and a second
\* scheduleHealthchecks over the same channel, store and context
StartWhileRunning ==
  /\ started
  /\ schedPc = "run" \/ bhPc \in {"recv", "iter"}
  /\ twin = NoTwin
  /\ starts < MaxStarts
  /\ starts' = starts + 1
  /\ twin' = [sched |-> "run", bh |-> "run", tick |-> FALSE]
  /\ UNCHANGED << now, started, cancelled, tickPending, schedPc, services,
                  probes, nextInv, results, broadcast, hubVars, clientVars,
                  nAccepted, lateSends, errBudget >>

\* case <-ticker.C in the second scheduleHealthchecks: GetAllServices, then
\* one goroutine per due service (or, on a store error, log and continue)
TwinTick ==
  /\ twin.sched = "run"
  /\ twin.tick
  /\ \E ok \in BOOLEAN :
       /\ ok \/ errBudget > 0
       /\ errBudget' = IF ok THEN errBudget ELSE errBudget - 1
       /\ LET due == IF ok THEN Due(services, now) ELSE {} IN
          /\ nextInv + Cardinality(due) - 1 <= MaxProbes
          /\ probes' = [p \in ProbeIds |->
               IF \E s \in due : nextInv + Rank(due, s) = p
               THEN LET s == CHOOSE s \in due : nextInv + Rank(due, s) = p IN
                    [pc |-> "chk_db", sid |-> s, at |-> now, status |-> "none",
                     prevStatus |-> services[s].current_status,
                     prevChecked |-> services[s].last_checked,
                     chkStore |-> "none", chkSend |-> "none",
                     finStore |-> "none", finSend |-> "none"]
               ELSE probes[p]]
          /\ nextInv' = nextInv + Cardinality(due)
  /\ twin' = [twin EXCEPT !.tick = FALSE]
  /\ UNCHANGED << now, started, starts, cancelled, tickPending, schedPc,
                  services, results, broadcast, hubVars, clientVars, nAccepted,
                  lateSends >>

\* case update := <-h.broadcast in the second broadcastHandler, with no
\* viewer registered: the range loop has nothing to visit
TwinBhReceive ==
  /\ twin.bh = "run"
  /\ broadcast # << >>
  /\ clients = {}
  /\ broadcast' = Dequeue(broadcast).rest
  /\ UNCHANGED << now, schedVars, services, probes, nextInv, results, hubVars,
                  clientVars, nAccepted, lateSends, errBudget >>

\* the engine with no viewer connected, a store that never fails and one
\* service probed every TickPeriod seconds, after the Start() of main(),
\* driven by a caller that may call Start() a second time and never calls
\* Stop()
InitTwice ==
  /\ Running
  /\ Quiet
  /\ errBudget = 0
  /\ \A s \in Services :
       /\ services[s].host = QuickSpec.host
       /\ services[s].method = QuickSpec.method
       /\ services[s].interval = QuickSpec.interval

NextTwice ==
  \/ StartWhileRunning
  \/ Tock
  \/ Tick
  \/ TwinTick
  \/ \E p \in ProbeIds : CheckingStore(p)
  \/ \E p \in ProbeIds : CheckingPublish(p)
  \/ \E p \in ProbeIds : ProbeReturn(p)
  \/ \E p \in ProbeIds : SaveResult(p)
  \/ \E p \in ProbeIds : TerminalStore(p)
  \/ \E p \in ProbeIds : TerminalPublish(p)
  \/ BhReceive
  \/ BhIterDone
  \/ TwinBhReceive

SpecTwice == InitTwice /\ [][NextTwice]_vars

\* ================================================================== claims

SeqRange(q) == { q[i] : i \in DOMAIN q }

Finished(p) == probes[p].pc = "done"

\* the updates that are in the channel or in the hands of the broadcast loop
InChannel == SeqRange(broadcast) \cup (IF bhPc = "iter" THEN {bhUpd} ELSE {})

\* every update that exists anywhere: in the channel or written to a connection
EveryUpdate == InChannel \cup UNION { SeqRange(written[c]) : c \in Clients }

\* ------------------------------------------------------------------- C1
\* C1: for every service at most one probe is in flight at any instant (a
\* second probe of S is never dispatched before the previous one has finished).
C1_AtMostOneProbeInFlight ==
  \A s \in Services :
    Cardinality({ p \in ProbeIds : InFlight(p) /\ probes[p].sid = s }) <= 1

\* ------------------------------------------------------------------- C2
\* C2: for every subscriber, the updates written to it are a subsequence of
\* the updates the Hub accepted, in the same order (n is the position of an
\* update in the order of acceptance).
C2_WrittenInPublishOrder ==
  /\ \A c \in Clients : \A i, j \in DOMAIN written[c] :
       i < j => written[c][i].n < written[c][j].n
  /\ \A u \in EveryUpdate :
       /\ u.n \in 1..nAccepted
       /\ \A v \in EveryUpdate : v.n = u.n => v = u

\* a subscriber has been written two updates published by different probe runners
C2_Witness ==
  \E c \in Clients : \E i, j \in DOMAIN written[c] :
    i < j /\ written[c][i].inv # written[c][j].inv

C5_EmitsIffChanged ==
  \A p \in ProbeIds : Finished(p) =>
    /\ probes[p].finSend # "none" <=>
         (probes[p].status # probes[p].prevStatus \/ probes[p].prevChecked = Nil)
    /\ (probes[p].status = probes[p].prevStatus /\ probes[p].prevChecked # Nil)
         => probes[p].finSend = "none"

\* C5 amended: a completed probe emits its StatusUpdate exactly when its
\* store update succeeded, whether or not the status changed: a probe that
\* re-confirms the status of an already checked service emits one too.
C5_EmitsWhenStored ==
  \A p \in ProbeIds :
    /\ (Finished(p) /\ probes[p].finStore = "ok") => probes[p].finSend # "none"
    /\ probes[p].finStore # "ok" => probes[p].finSend = "none"

\* a probe re-confirmed the stored status of an already checked service and
\* its update was accepted
C5_Witness ==
  \E p \in ProbeIds :
    /\ Finished(p)
    /\ probes[p].status = probes[p].prevStatus
    /\ probes[p].prevChecked # Nil
    /\ probes[p].finSend = "accepted"

\* ------------------------------------------------------------------- C6
\* Viewer 1 reads whatever is sent to it; viewer 2 may never read.  The loop
\* takes each step it can take, and so does viewer 1.
FairSpecHub ==
  /\ InitHub
  /\ [][NextHub]_vars
  /\ WF_vars(BhReceive)
  /\ WF_vars(BhIterDone)
  /\ \A c \in Clients : WF_vars(BhWriteOk(c)) /\ WF_vars(BhWriteErr(c))
  /\ WF_vars(PeerRead(1))

Queued(k) == \E i \in DOMAIN broadcast : broadcast[i].n = k

WrittenTo(c, k) == \E i \in DOMAIN written[c] : written[c][i].n = k

\* C6: with a subscriber that reads promptly and one that never reads, every
\* update the Hub accepted while the reader is attached is eventually
\* delivered to the reader (unless the reader's connection goes away).
C6_ReaderReceivesEveryUpdate ==
  \A k \in 1..(2 * MaxProbes) :
    (Queued(k) /\ 1 \in clients /\ conn[1] = "open")
      ~> (WrittenTo(1, k) \/ conn[1] # "open")

\* ------------------------------------------------------------------- C7
\* C7: a full inbox costs the slow subscriber that one message and nothing
\* else: the Hub always gets past a subscriber it has to serve (writes the
\* update, or gives up on a failed connection), it never waits for it.
C7_FullSubscriberNeverHoldsTheHub ==
  \A c \in Clients :
    (bhPc = "iter" /\ c \in bhTodo) => ENABLED (BhWriteOk(c) \/ BhWriteErr(c))

\* ------------------------------------------------------------------- C8
AtPublish(p) == probes[p].pc \in {"chk_pub", "fin_pub"}

PublishReturns(p) == AtPublish(p) /\ probes'[p].pc # probes[p].pc

\* C8: publishing never blocks the probe runner: the send is always possible;
\* on a full channel the update is dropped and the channel unchanged,
\* otherwise the update is appended at the tail - with or without a
\* broadcast loop consuming the channel.
C8_PublishNeverBlocks ==
  /\ [](\A p \in ProbeIds :
          AtPublish(p) => ENABLED (CheckingPublish(p) \/ TerminalPublish(p)))
  /\ [][\A p \in ProbeIds : PublishReturns(p) =>
          IF Len(broadcast) = BroadcastCap
          THEN broadcast' = broadcast
          ELSE /\ Len(broadcast') = Len(broadcast) + 1
               /\ SubSeq(broadcast', 1, Len(broadcast)) = broadcast
               /\ broadcast'[Len(broadcast')].inv = p]_vars

\* after the broadcast loop has exited, one send was accepted and one dropped
C8_Witness == bhPc = "done" /\ lateSends = {"accepted", "dropped"}

\* ------------------------------------------------------------------- C9
LastWritten(c) == IF written[c] = << >> THEN 0 ELSE written[c][Len(written[c])].n

\* C9: after a write to X fails, X is unregistered and closed and nothing
\* later is written to X; the update of the failed write, like every other,
\* has reached each other subscriber of that round when the round ends.
C9_FailedSubscriberEvicted ==
  /\ \A c \in Clients : failedOn[c] # 0 =>
       /\ c \notin clients
       /\ conn[c] = "closed"
       /\ \A i \in DOMAIN written[c] : written[c][i].n < failedOn[c]
  /\ (bhPc = "iter" /\ bhTodo = {}) =>
       \A c \in bhStart : LastWritten(c) = bhUpd.n \/ failedOn[c] = bhUpd.n

\* the write of an update to one subscriber failed and the same update was
\* written to another
C9_Witness ==
  \E x, c \in Clients :
    x # c /\ failedOn[x] # 0 /\ WrittenTo(c, failedOn[x])

\* ------------------------------------------------------------------ C10
\* C10: a subscriber is registered from its attach until client close, write
\* error or shutdown; once stop() has taken effect (both loops have
\* exited) no subscriber remains registered.
C10_NoSubscriberAfterStop ==
  /\ \A c \in Clients :
       c \in clients => (adapter[c] = "reading" /\ failedOn[c] = 0)
  /\ (cancelled /\ schedPc = "done" /\ bhPc = "done") => clients = {}

\* ------------------------------------------------------------------ C11
\* C11: every modification of the subscriber set happens under the writer
\* lock and publish only reads the set: the set never changes in a step taken
\* while the broadcast loop holds the reader lock.
C11_SetChangesOnlyUnderWriterLock == [][clients' # clients => ~RLockHeld]_vars

\* ------------------------------------------------------------------ C12
\* C12: stop() is synchronous: once stop() has returned, the scheduler loop
\* has terminated and no probe is running.
C12_StopIsSynchronous ==
  cancelled => (schedPc = "done" /\ \A p \in ProbeIds : ~InFlight(p))

\* ------------------------------------------------------------------ C13
\* C13: after stop() followed by start() the scheduler is running again (it
\* goes on dispatching due services at its ticks and the broadcast loop goes
\* on delivering): neither loop has returned.
C13_RunningAgainAfterRestart ==
  starts >= 2 => (schedPc = "run" /\ bhPc \in {"recv", "iter"})

\* ------------------------------------------------------------------ C14
\* a tick whose store read succeeded
TickReadsStore ==
  /\ schedPc = "run" /\ tickPending
  /\ ~tickPending' /\ schedPc' = "run" /\ errBudget' = errBudget

\* the probe runners this step starts for service s
DispatchedFor(s) ==
  { p \in ProbeIds : probes[p].pc = "idle" /\ probes'[p].pc = "chk_db"
                     /\ probes'[p].sid = s }

Eligible(sv, t) ==
  /\ sv.host # ""
  /\ sv.method \in {"HTTP", "HTTPS", "WEBSOCKET", "WSS", "GRPC"} => sv.url # ""
  /\ sv.last_checked = Nil \/ t - sv.last_checked >= sv.interval

\* C14: a tick dispatches exactly one probe runner for a service iff its host
\* is set, its path is set when the method is HTTP, HTTPS, WebSocket, WSS or
\* gRPC, and it was never checked or its interval has elapsed; otherwise none.
C14_DispatchIffDue ==
  [][TickReadsStore =>
       \A s \in Services :
         Cardinality(DispatchedFor(s)) = IF Eligible(services[s], now) THEN 1 ELSE 0]_vars

\* a tick has just dispatched a probe for a service checked before, and an
\* earlier probe of it is over
C14_Witness ==
  \E p, q \in ProbeIds :
    /\ probes[p].pc = "chk_db" /\ probes[p].prevChecked # Nil
    /\ Finished(q) /\ probes[q].sid = probes[p].sid

\* ------------------------------------------------------------------ C15
\* a tick whose store read failed
TickReadFails ==
  /\ schedPc = "run" /\ tickPending
  /\ ~tickPending' /\ errBudget' < errBudget

\* C15: when the store read of a tick fails, that tick dispatches no probe
\* and changes no service state, and the scheduler keeps running (the next
\* tick reads the store again).
C15_FailedReadSkipsTick ==
  [][TickReadFails =>
       /\ probes' = probes /\ nextInv' = nextInv
       /\ services' = services /\ results' = results
       /\ schedPc' = "run"]_vars

\* the store read of one tick failed and a later tick has just dispatched the
\* first probe
C15_Witness ==
  /\ errBudget < MaxStoreErrors
  /\ nextInv = 2
  /\ probes[1].pc = "chk_db"

\* ------------------------------------------------------------------ C16
\* C16: a probe that panics does not stop the engine: the scheduler loop and
\* the broadcast loop keep running (until stop() ends them).
C16_PanicLeavesEngineRunning ==
  (\E p \in ProbeIds : probes[p].pc = "panicked") =>
    /\ schedPc = "run" \/ (cancelled /\ schedPc = "done")
    /\ bhPc \in {"recv", "iter"} \/ (cancelled /\ bhPc = "done")

\* ------------------------------------------------------------------ C17
\* C17: every dispatched probe terminates: a probe runner that has not yet
\* finished can always take its next step, whatever the peer does.
C17_NoProbeBlocksForever ==
  \A p \in ProbeIds : InFlight(p) =>
    ENABLED (\/ CheckingStore(p) \/ CheckingPublish(p) \/ ProbeReturn(p)
             \/ SaveResult(p) \/ TerminalStore(p) \/ TerminalPublish(p))

\* ------------------------------------------------------------------ C18
\* the rows of healthcheck_results of service s, oldest first
ResultsOf(s) == SelectSeq(results, LAMBDA r : r.service_id = s)

\* C18: for every service, last_checked is null (no result yet) or equal to
\* the checked_at of the most recent result of that service.
C18_LastCheckedIsLatestResult ==
  \A s \in Services :
    \/ services[s].last_checked = Nil
    \/ /\ ResultsOf(s) # << >>
       /\ services[s].last_checked = ResultsOf(s)[Len(ResultsOf(s))].checked_at

\* ------------------------------------------------------------------ C19
\* the longest a probe can run within the clock's range
MaxProbeDuration == MaxTime - TickPeriod

\* q is the probe of the same service dispatched next after p
Successive(p, q) ==
  /\ p < q
  /\ probes[p].pc # "idle" /\ probes[q].pc # "idle"
  /\ probes[p].sid = probes[q].sid
  /\ \A r \in ProbeIds : (p < r /\ r < q) => probes[r].sid # probes[p].sid

\* C19: the gap between two successive dispatches of a service is at least
\* its polling interval minus one tick and less than its polling interval
\* plus one tick plus the maximum probe duration.
C19_DispatchGapWithinBounds ==
  \A p, q \in ProbeIds : Successive(p, q) =>
    LET gap == probes[q].at - probes[p].at
        interval == services[probes[p].sid].interval IN
    /\ gap >= interval - TickPeriod
    /\ gap < interval + TickPeriod + MaxProbeDuration

\* ------------------------------------------------------------------ C20
\* sends made so far, and those the full channel dropped
Published ==
  Cardinality({ p \in ProbeIds : probes[p].chkSend # "none" })
  + Cardinality({ p \in ProbeIds : probes[p].finSend # "none" })

Dropped ==
  Cardinality({ p \in ProbeIds : probes[p].chkSend = "dropped" })
  + Cardinality({ p \in ProbeIds : probes[p].finSend = "dropped" })

\* updates on their way to subscriber c: in the channel, or taken by the
\* broadcast loop and not yet written to c
QueuedFor(c) ==
  Len(broadcast) + (IF bhPc = "iter" /\ c \in bhTodo THEN 1 ELSE 0)

Unaccounted(c) == Published - Len(written[c]) - QueuedFor(c) - Dropped

\* C20: for a subscriber that stays registered, every published update is
\* exactly one of delivered to it, queued for it or dropped: no step changes
\* published - delivered - queued - dropped.
C20_EveryUpdateAccountedFor ==
  [][\A c \in Clients :
       (c \in clients /\ c \in clients') => Unaccounted(c)' = Unaccounted(c)]_vars

\* with a subscriber registered, an update is queued for it and one has been
\* dropped
C20_Witness ==
  \E c \in clients :
    /\ Dropped >= 1
    /\ QueuedFor(c) >= 1

\* ------------------------------------------------------------------ C21
\* update k has been taken off the channel and its round has come to every
\* subscriber registered at its start: each has had the update written or
\* its write has failed, but for at most one the loop may still be writing to
AttemptedOnAll(k) ==
  /\ bhPc = "iter" /\ bhUpd.n = k
  /\ Cardinality(bhTodo) <= 1
  /\ \A c \in bhStart \ bhTodo : LastWritten(c) = k \/ failedOn[c] = k

\* C21: under fairness every update accepted into the channel is eventually
\* attempted on every subscriber registered when it is processed; none is
\* skipped.
C21_AcceptedUpdateIsAttempted ==
  \A k \in 1..(2 * MaxProbes) : Queued(k) ~> AttemptedOnAll(k)

\* =================================================== the probe library
\* One invocation of performHealthcheck in detail: the result record it
\* builds, the probe function the switch selects, what that function does
\* with the answers of the network, and the row that is inserted.  Texts that
\* the code inspects are sequences of characters; an error is the sequence
\* of the parts of its message, << >> for nil.

\* time.Duration.Milliseconds() of a number of seconds of the clock
Milliseconds(d) == d * 1000

DigitChars == << "0", "1", "2", "3", "4", "5", "6", "7", "8", "9" >>

\* fmt.Sprintf("%d", n), n >= 0: the decimal digits, most significant first
RECURSIVE Sprintf_d(_)
Sprintf_d(n) == IF n < 10 THEN << DigitChars[n + 1] >>
                ELSE Append(Sprintf_d(n \div 10), DigitChars[(n % 10) + 1])

\* strings.Contains(s, sub)
Contains(s, sub) ==
  \E i \in 1..(Len(s) + 1) :
    /\ i + Len(sub) - 1 <= Len(s)
    /\ SubSeq(s, i, i + Len(sub) - 1) = sub

\* values of the status_mapping JSON object: a JSON string or something else
JSONString(v) == [kind |-> "string", v |-> v]
JSONNumber(v) == [kind |-> "number", v |-> v]

\* the empty JSON object
EmptyJSON == [k \in {} |-> JSONString("")]

\* status_mapping objects a service row can carry
StatusMappings ==
  { EmptyJSON,
    << "2", "0", "0" >> :> JSONString("degraded"),
    << "5", "0", "3" >> :> JSONString("alive"),
    (<< "4", "2", "9" >> :> JSONString("dead")) @@ (<< "4", "0", "4" >> :> JSONString("alive")),
    << "0", "2", "0", "0" >> :> JSONString("dead"),
    << "2", "0", "0" >> :> JSONString("up"),
    << "2", "0", "0" >> :> JSONString("unknown"),
    << "5", "0", "3" >> :> JSONString("checking"),
    << "4", "0", "4" >> :> JSONNumber(<< "1" >>) }

\* what the network can answer to a probe: which of the probe's I/O calls
\* returns an error (0: none), the text of that error, and the answer of the
\* peer when no call fails
ErrorTexts == { "i/o timeout", "connection refused" }
ResponseCodes == { 200, 404, 429, 503 }

\* what a probe function hands back: status and error, plus, as history, the
\* I/O calls it made, the call that failed, whether it set
\* result.ResponseTime, and the result.StatusCode it set
Outcome(status, err, io, failed, timed, code) ==
  [status |-> status, err |-> err, io |-> io, failed |-> failed,
   timed |-> timed, code |-> code]

\* faulty variant: the expected status code is looked at before the mapping
determineStatusExpectedFirst(statusCode, service) ==
  LET key == Sprintf_d(statusCode)
      m == service.status_mapping IN
  IF statusCode = service.expected_status THEN StatusAlive
  ELSE IF /\ key \in DOMAIN m
          /\ m[key].kind = "string"
          /\ m[key].v \in {"alive", "degraded", "dead"}
       THEN m[key].v
  ELSE IF statusCode = 429 \/ statusCode = 503 THEN StatusDegraded
  ELSE StatusDead

\* faulty variant: whatever string the mapping holds becomes the status
determineStatusAnyMapped(statusCode, service) ==
  LET key == Sprintf_d(statusCode)
      m == service.status_mapping IN
  IF key \in DOMAIN m /\ m[key].kind = "string" THEN m[key].v
  ELSE IF statusCode = service.expected_status THEN StatusAlive
  ELSE IF statusCode = 429 \/ statusCode = 503 THEN StatusDegraded
  ELSE StatusDead

\* determineStatus: the custom mapping first (an entry that is not one of
\* the strings alive, degraded, dead falls through), then the expected status
\* code, then 429 and 503
determineStatus(statusCode, service) ==
  LET key == Sprintf_d(statusCode)
      m == service.status_mapping IN
  IF /\ Cardinality(DOMAIN m) > 0
     /\ key \in DOMAIN m
     /\ m[key].kind = "string"
     /\ m[key].v \in {"alive", "degraded", "dead"}
  THEN CASE m[key].v = "alive" -> StatusAlive
         [] m[key].v = "degraded" -> StatusDegraded
         [] m[key].v = "dead" -> StatusDead
  ELSE IF statusCode = service.expected_status THEN StatusAlive
  ELSE IF statusCode = 429 \/ statusCode = 503 THEN StatusDegraded
  ELSE StatusDead

\* performHTTPHealthcheck (with a valid http_method): client.Do, then the
\* status code and the response time go into the result
performHTTPHealthcheck(service, env) ==
  IF env.fail = 1
  THEN Outcome(StatusDead, << env.text >>, << "client.Do" >>, "client.Do", FALSE, 0)
  ELSE Outcome(determineStatus(env.answer.code, service), << >>,
               << "client.Do" >>, "", TRUE, env.answer.code)

\* an I/O call of a probe function: its name, the status the function
\* returns when the call fails, and the prefix it puts before the error text
\* ("" when the error is returned as it is)
Call(op, status, prefix) == [op |-> op, status |-> status, prefix |-> prefix]

\* faulty variant: the cause is left out of the message
ErrorfDropsCause(prefix, text) == << prefix >>

\* fmt.Errorf(prefix + "%v", text)
Errorf(prefix, text) == << prefix, text >>

\* the answer of the peer: an HTTP status code, a verdict of the protocol
\* ("good": what the probe hopes for, "bad": anything else), the addresses
\* and the names or texts a DNS lookup returned
Answer(code, word, ips, records) ==
  [code |-> code, word |-> word, ips |-> ips, records |-> records]

NoAnswer == Answer(0, "none", << >>, << >>)
Good == Answer(0, "good", << >>, << >>)
Bad == Answer(0, "bad", << >>, << >>)
Empty == Answer(0, "empty", << >>, << >>)

\* a probe function that makes its calls in turn, returns at the first error,
\* then judges the answer: onBad is what it returns for an answer it does not
\* accept; otherwise it sets result.ResponseTime and returns Alive
RunCalls(calls, env, onBad) ==
  LET ops == [i \in 1..Len(calls) |-> calls[i].op] IN
  IF env.fail \in 1..Len(calls)
  THEN LET c == calls[env.fail] IN
       Outcome(c.status,
               IF c.prefix = "" THEN << env.text >> ELSE Errorf(c.prefix, env.text),
               SubSeq(ops, 1, env.fail), c.op, FALSE, 0)
  ELSE IF env.answer.word = "bad"
  THEN Outcome(onBad.status, onBad.err, ops, "", FALSE, 0)
  ELSE Outcome(StatusAlive, << >>, ops, "", TRUE, 0)

Verdict(status, err) == [status |-> status, err |-> err]

\* what conn.Read puts into a buffer of ReadBufferLen bytes
ReadInto(data) ==
  SubSeq(data, 1, IF Len(data) < ReadBufferLen THEN Len(data) ELSE ReadBufferLen)

\* faulty variant: the response is read and compared whether or not
\* anything was sent
performTCPHealthcheckAlwaysExpects(service, env) ==
  LET dial == Call("net.DialTimeout", StatusDead, "")
      write == Call("conn.Write", StatusDead, "")
      read == Call("conn.Read", StatusDead, "")
      calls == IF service.tcp_expect_data = << >> THEN << dial >>
               ELSE << dial, read >> IN
  IF env.fail # 0 \/ service.tcp_expect_data = << >>
  THEN RunCalls(calls, env, Verdict(StatusAlive, << >>))
  ELSE IF ~Contains(ReadInto(<< "n", "o" >>), service.tcp_expect_data)
  THEN Outcome(StatusDead, << "expected response not found in response" >>,
               << "net.DialTimeout", "conn.Read" >>, "", FALSE, 0)
  ELSE Outcome(StatusAlive, << >>, << "net.DialTimeout", "conn.Read" >>, "", TRUE, 0)

\* performTCPHealthcheck: the dial; with tcp_send_data the write; with
\* tcp_expect_data as well, one read into a buffer and the substring test
performTCPHealthcheck(service, env) ==
  LET dial == Call("net.DialTimeout", StatusDead, "")
      write == Call("conn.Write", StatusDead, "")
      read == Call("conn.Read", StatusDead, "")
      calls == IF service.tcp_send_data = << >> THEN << dial >>
               ELSE IF service.tcp_expect_data = << >> THEN << dial, write >>
               ELSE << dial, write, read >>
      ops == [i \in 1..Len(calls) |-> calls[i].op] IN
  IF env.fail # 0 \/ Len(calls) < 3
  THEN RunCalls(calls, env, Verdict(StatusAlive, << >>))
  ELSE IF ~Contains(ReadInto(env.answer.records[1]), service.tcp_expect_data)
  THEN Outcome(StatusDead, << "expected response not found in response" >>,
               ops, "", FALSE, 0)
  ELSE Outcome(StatusAlive, << >>, ops, "", TRUE, 0)

\* performUDPHealthcheck for a service with no udp_expect_data: dial, read
\* deadline, then the test of udp_send_data, then the write
performUDPHealthcheck(service, env) ==
  LET before == << Call("net.DialTimeout", StatusDead, ""),
                   Call("conn.SetReadDeadline", StatusDead, "") >>
      ops == << "net.DialTimeout", "conn.SetReadDeadline" >> IN
  IF env.fail \in 1..2 THEN RunCalls(before, env, Verdict(StatusAlive, << >>))
  ELSE IF service.udp_send_data = << >>
  THEN Outcome(StatusDead, << "UDP send data is required" >>, ops, "", FALSE, 0)
  ELSE RunCalls(Append(before, Call("conn.Write", StatusDead, "")), env,
                Verdict(StatusAlive, << >>))

\* lines 536-539: packetCount, 3 when icmp_packet_count is not positive
PacketCount(service) ==
  IF service.icmp_packet_count <= 0 THEN 3 ELSE service.icmp_packet_count

\* the arguments of the ping command that carry the packet count:
\* "-c", strconv.Itoa(packetCount)
PingArgs(service) == << "-c", Sprintf_d(PacketCount(service)) >>

\* performICMPHealthcheck: the ping command; "bad" is an output that contains
\* "0 received"
performICMPHealthcheck(service, env) ==
  RunCalls(<< Call("cmd.CombinedOutput", StatusDead, "") >>, env,
           Verdict(StatusDead, Errorf("ping failed: ", "0 received")))

\* net.IP.String() of an IPv4 address
IPString(ip) ==
  Sprintf_d(ip[1]) \o << "." >> \o Sprintf_d(ip[2]) \o << "." >>
    \o Sprintf_d(ip[3]) \o << "." >> \o Sprintf_d(ip[4])

\* performDNSHealthcheck: the lookup of the query type, then the comparison
\* with dns_expected_result
performDNSHealthcheck(service, env) ==
  LET type == service.dns_query_type
      want == service.dns_expected_result
      lookup == CASE type = "A" -> "resolver.LookupIPAddr"
                  [] type = "CNAME" -> "resolver.LookupCNAME"
                  [] type = "MX" -> "resolver.LookupMX"
                  [] type = "NS" -> "resolver.LookupNS"
                  [] type = "TXT" -> "resolver.LookupTXT"
                  [] OTHER -> ""
      ips == env.answer.ips
      recs == env.answer.records
      found == CASE type = "A" -> \E i \in DOMAIN ips : IPString(ips[i]) = want
                 [] type = "CNAME" -> recs[1] = want
                 [] type \in {"MX", "NS"} -> \E i \in DOMAIN recs : recs[i] = want
                 [] type = "TXT" -> \E i \in DOMAIN recs : Contains(recs[i], want)
                 [] OTHER -> FALSE
      miss == CASE type = "A" -> "expected IP not found in DNS response"
                [] type = "CNAME" -> "expected CNAME but got another"
                [] type = "MX" -> "expected MX record not found"
                [] type = "NS" -> "expected NS record not found"
                [] type = "TXT" -> "expected TXT record not found"
                [] OTHER -> "" IN
  IF lookup = ""
  THEN Outcome(StatusDead, << "unsupported DNS query type: ", type >>, << >>, "", FALSE, 0)
  ELSE IF env.fail = 1
  THEN Outcome(StatusDead, << env.text >>, << lookup >>, lookup, FALSE, 0)
  ELSE IF want # << >> /\ ~found
  THEN Outcome(StatusDead, << miss >>, << lookup >>, "", FALSE, 0)
  ELSE Outcome(StatusAlive, << >>, << lookup >>, "", TRUE, 0)

\* performWebSocketHealthcheck: dial, ping frame, wait for a frame
performWebSocketHealthcheck(service, env) ==
  RunCalls(<< Call("dialer.Dial", StatusDead, ""),
              Call("conn.WriteMessage", StatusDead, ""),
              Call("conn.ReadMessage", StatusDead, "") >>, env,
           Verdict(StatusAlive, << >>))

\* faulty variant: a response status other than SERVING is Dead
performGRPCHealthcheckStrict(service, env) ==
  RunCalls(<< Call("grpc.Dial", StatusDead, ""),
              Call("client.Check", StatusDead, "") >>, env,
           Verdict(StatusDead, Errorf("gRPC service status: ", "NOT_SERVING")))

\* performGRPCHealthcheck: "bad" is a response status other than SERVING
performGRPCHealthcheck(service, env) ==
  RunCalls(<< Call("grpc.Dial", StatusDead, ""),
              Call("client.Check", StatusDead, "") >>, env,
           Verdict(StatusDegraded, Errorf("gRPC service status: ", "NOT_SERVING")))

performSMTPHealthcheck(service, env) ==
  RunCalls(<< Call("smtp.Dial", StatusDead, ""),
              Call("client.Noop", StatusDead, "") >>, env,
           Verdict(StatusAlive, << >>))

performFTPHealthcheck(service, env) ==
  RunCalls(<< Call("net.DialTimeout", StatusDead, ""),
              Call("conn.SetReadDeadline", StatusDead, ""),
              Call("reader.ReadString", StatusDead, ""),
              Call("conn.Write", StatusDead, ""),
              Call("reader.ReadString", StatusDead, "") >>, env,
           Verdict(StatusAlive, << >>))

\* performSSHHealthcheck: "bad" is an output other than "healthcheck\n"
performSSHHealthcheck(service, env) ==
  RunCalls(<< Call("ssh.Dial", StatusDead, ""),
              Call("conn.NewSession", StatusDead, ""),
              Call("session.Output", StatusDead, "") >>, env,
           Verdict(StatusDead, Errorf("unexpected SSH output: ", "other")))

performRedisHealthcheck(service, env) ==
  RunCalls(<< Call("client.Ping", StatusDead, "") >>, env,
           Verdict(StatusAlive, << >>))

performMySQLHealthcheck(service, env) ==
  RunCalls(<< Call("sql.Open", StatusDead, ""),
              Call("db.PingContext", StatusDead, "") >>, env,
           Verdict(StatusAlive, << >>))

\* performPostgresHealthcheck: a failed ping is Dead, a failed SELECT version()
\* after a successful ping is Degraded
performPostgresHealthcheck(service, env) ==
  RunCalls(<< Call("sql.Open", StatusDead, "failed to connect to PostgreSQL: "),
              Call("db.PingContext", StatusDead, "PostgreSQL ping failed: "),
              Call("db.QueryRowContext", StatusDegraded, "PostgreSQL query failed: ") >>,
           env, Verdict(StatusAlive, << >>))

performMongoDBHealthcheck(service, env) ==
  RunCalls(<< Call("mongo.Connect", StatusDead, ""),
              Call("client.Ping", StatusDead, "") >>, env,
           Verdict(StatusAlive, << >>))

\* performKafkaHealthcheck with brokers in the metadata: client, controller
\* and, when kafka_topic is set, the topics and the partitions of the topic;
\* "bad" is a topic list without kafka_topic, "empty" an empty partition list
performKafkaHealthcheck(service, env) ==
  LET base == << Call("sarama.NewClient", StatusDead, ""),
                 Call("client.Controller", StatusDead, "") >> IN
  IF service.kafka_topic = ""
  THEN RunCalls(base, [env EXCEPT !.answer = Good], Verdict(StatusAlive, << >>))
  ELSE IF env.fail = 0 /\ env.answer.word = "bad"
  THEN RunCalls(Append(base, Call("client.Topics", StatusDead, "")), env,
                Verdict(StatusDegraded, << "topic does not exist" >>))
  ELSE RunCalls(base \o << Call("client.Topics", StatusDead, ""),
                           Call("client.Partitions", StatusDegraded, "") >>,
                IF env.fail = 0 /\ env.answer.word = "empty"
                THEN [env EXCEPT !.answer = Bad] ELSE env,
                Verdict(StatusDegraded, << "topic has no partitions" >>))

\* the switch of performHealthcheck on service.HealthcheckMethod: the probe
\* function of each case, "" for the default case
ProbeFunction(method) ==
  CASE method \in {"HTTP", "HTTPS"} -> "performHTTPHealthcheck"
    [] method = "TCP" -> "performTCPHealthcheck"
    [] method = "UDP" -> "performUDPHealthcheck"
    [] method = "ICMP" -> "performICMPHealthcheck"
    [] method = "DNS" -> "performDNSHealthcheck"
    [] method = "WEBSOCKET" -> "performWebSocketHealthcheck"
    [] method = "GRPC" -> "performGRPCHealthcheck"
    [] method = "SMTP" -> "performSMTPHealthcheck"
    [] method = "FTP" -> "performFTPHealthcheck"
    [] method = "SSH" -> "performSSHHealthcheck"
    [] method = "REDIS" -> "performRedisHealthcheck"
    [] method = "MYSQL" -> "performMySQLHealthcheck"
    [] method = "POSTGRES" -> "performPostgresHealthcheck"
    [] method = "MONGODB" -> "performMongoDBHealthcheck"
    [] method = "KAFKA" -> "performKafkaHealthcheck"
    [] OTHER -> ""

\* the call of the selected probe function
Perform(fn, service, env) ==
  CASE fn = "performHTTPHealthcheck" -> performHTTPHealthcheck(service, env)
    [] fn = "performTCPHealthcheck" -> performTCPHealthcheck(service, env)
    [] fn = "performUDPHealthcheck" -> performUDPHealthcheck(service, env)
    [] fn = "performICMPHealthcheck" -> performICMPHealthcheck(service, env)
    [] fn = "performDNSHealthcheck" -> performDNSHealthcheck(service, env)
    [] fn = "performWebSocketHealthcheck" -> performWebSocketHealthcheck(service, env)
    [] fn = "performGRPCHealthcheck" -> performGRPCHealthcheck(service, env)
    [] fn = "performSMTPHealthcheck" -> performSMTPHealthcheck(service, env)
    [] fn = "performFTPHealthcheck" -> performFTPHealthcheck(service, env)
    [] fn = "performSSHHealthcheck" -> performSSHHealthcheck(service, env)
    [] fn = "performRedisHealthcheck" -> performRedisHealthcheck(service, env)
    [] fn = "performMySQLHealthcheck" -> performMySQLHealthcheck(service, env)
    [] fn = "performPostgresHealthcheck" -> performPostgresHealthcheck(service, env)
    [] fn = "performMongoDBHealthcheck" -> performMongoDBHealthcheck(service, env)
    [] fn = "performKafkaHealthcheck" -> performKafkaHealthcheck(service, env)

\* number of I/O calls the probe function of a service can make
NumCalls(fn, service) ==
  CASE fn = "performHTTPHealthcheck" -> 1
    [] fn = "performTCPHealthcheck" ->
         IF service.tcp_send_data = << >> THEN 1
         ELSE IF service.tcp_expect_data = << >> THEN 2 ELSE 3
    [] fn = "performUDPHealthcheck" -> IF service.udp_send_data = << >> THEN 2 ELSE 3
    [] fn = "performICMPHealthcheck" -> 1
    [] fn = "performDNSHealthcheck" ->
         IF service.dns_query_type \in {"A", "CNAME", "MX", "NS", "TXT"} THEN 1 ELSE 0
    [] fn = "performWebSocketHealthcheck" -> 3
    [] fn = "performGRPCHealthcheck" -> 2
    [] fn = "performSMTPHealthcheck" -> 2
    [] fn = "performFTPHealthcheck" -> 5
    [] fn = "performSSHHealthcheck" -> 3
    [] fn = "performRedisHealthcheck" -> 1
    [] fn = "performMySQLHealthcheck" -> 2
    [] fn = "performPostgresHealthcheck" -> 3
    [] fn = "performMongoDBHealthcheck" -> 2
    [] fn = "performKafkaHealthcheck" -> IF service.kafka_topic = "" THEN 2 ELSE 4

\* addresses, names and texts a resolver can return
IPa == << 10, 0, 0, 1 >>
IPb == << 10, 0, 0, 2 >>
NameA == << "a" >>
NameB == << "b" >>

\* what a TCP peer can send back
TCPReplies == { << "o", "k" >>, << "n", "o" >>, << "n", "o", "k" >> }

\* what the peer can answer when no call of the probe fails
Answers(fn, service) ==
  CASE fn = "performHTTPHealthcheck" ->
         { Answer(c, "response", << >>, << >>) : c \in ResponseCodes }
    [] fn = "performDNSHealthcheck" ->
         ( CASE service.dns_query_type = "A" ->
                  { Answer(0, "resolved", ips, << >>) :
                      ips \in { << IPa, IPb >>, << IPb >> } }
             [] service.dns_query_type = "CNAME" ->
                  { Answer(0, "resolved", << >>, << n >>) :
                      n \in { NameA, NameA \o NameB } }
             [] service.dns_query_type \in {"MX", "NS"} ->
                  { Answer(0, "resolved", << >>, r) :
                      r \in { << NameA, NameB >>, << NameB >> } }
             [] service.dns_query_type = "TXT" ->
                  { Answer(0, "resolved", << >>, r) :
                      r \in { << NameB \o NameA >>, << NameB >> } }
             [] OTHER -> { NoAnswer } )
    [] fn = "performTCPHealthcheck" ->
         IF service.tcp_send_data = << >> \/ service.tcp_expect_data = << >>
         THEN { Good }
         ELSE { Answer(0, "data", << >>, << d >>) : d \in TCPReplies }
    [] fn \in {"performICMPHealthcheck", "performGRPCHealthcheck",
               "performSSHHealthcheck"} -> { Good, Bad }
    [] fn = "performKafkaHealthcheck" ->
         IF service.kafka_topic = "" THEN { Good } ELSE { Good, Bad, Empty }
    [] OTHER -> { Good }

\* what the network can do to one run of the probe function of a service
Envs(fn, service) ==
  { [fail |-> 0, text |-> "", answer |-> a] : a \in Answers(fn, service) }
  \cup { [fail |-> k, text |-> t, answer |-> NoAnswer] :
           k \in 1..NumCalls(fn, service), t \in ErrorTexts }

\* the HealthcheckResult under construction and the call of the probe
\* function (history: the function, the time it began and the time it
\* returned, the arguments of the command it ran, what the network did, the
\* I/O calls made and the one that failed)
NoResult == [response_time |-> 0, status |-> "none", status_code |-> 0, error |-> << >>]
NoCall == [fn |-> "", start |-> Nil, finish |-> Nil, args |-> << >>,
           env |-> [fail |-> 0, text |-> "", answer |-> NoAnswer],
           io |-> << >>, failed |-> ""]

\* performHealthcheck, lines 310-320 and the default case: the response time
\* is taken and the result is built before the switch; an unknown method is
\* Dead at once, otherwise the probe function begins
InvokeProbe(p) ==
  /\ probes[p].pc = "probe"
  /\ LET service == services[probes[p].sid]
         fn == ProbeFunction(service.method)
         result == [NoResult EXCEPT
                      !.response_time = Milliseconds(now - probes[p].at)] IN
     probes' = [probes EXCEPT ![p] =
       IF fn = ""
       THEN [@ EXCEPT !.pc = "insert", !.status = StatusDead,
                      !.result = [result EXCEPT
                         !.status = StatusDead,
                         !.error = << "unsupported health check method: ",
                                      service.method >>],
                      !.call = NoCall]
       ELSE [@ EXCEPT !.pc = "call", !.result = result,
                      !.call = [NoCall EXCEPT !.fn = fn, !.start = now]]]
  /\ UNCHANGED << now, schedVars, services, nextInv, results, broadcast,
                  hubVars, clientVars, nAccepted, lateSends, errBudget >>

\* the probe function returns; lines 357-360 copy status and error into the
\* result
ReturnFromProbe(p) ==
  /\ probes[p].pc = "call"
  /\ LET service == services[probes[p].sid] IN
     \E env \in Envs(probes[p].call.fn, service) :
       LET out == Perform(probes[p].call.fn, service, env) IN
       probes' = [probes EXCEPT ![p] =
         [@ EXCEPT !.pc = "insert", !.status = out.status,
                   !.result = [@ EXCEPT
                      !.status = out.status,
                      !.error = out.err,
                      !.status_code = out.code,
                      !.response_time =
                         IF out.timed
                         THEN Milliseconds(now - probes[p].call.start)
                         ELSE @],
                   !.call = [@ EXCEPT !.finish = now, !.env = env,
                                      !.args = IF probes[p].call.fn = "performICMPHealthcheck"
                                               THEN PingArgs(service) ELSE << >>,
                                      !.io = out.io, !.failed = out.failed]]]
  /\ UNCHANGED << now, schedVars, services, nextInv, results, broadcast,
                  hubVars, clientVars, nAccepted, lateSends, errBudget >>

\* h.repo.CreateHealthcheckResult(result) with every column of the INSERT
\* (service_id, status, status_code, response_time, error); checked_at takes
\* its default; an error is only logged
CreateHealthcheckResult(p) ==
  /\ probes[p].pc = "insert"
  /\ \E ok \in BOOLEAN :
       /\ ok => ForeignKeyHolds(services, probes[p].sid)
       /\ ok \/ errBudget > 0 \/ ~ForeignKeyHolds(services, probes[p].sid)
       /\ errBudget' = IF ok \/ ~ForeignKeyHolds(services, probes[p].sid)
                       THEN errBudget ELSE errBudget - 1
       /\ results' = IF ok
                     THEN Append(results,
                            [service_id |-> probes[p].sid,
                             status |-> probes[p].result.status,
                             status_code |-> probes[p].result.status_code,
                             response_time |-> probes[p].result.response_time,
                             error |-> probes[p].result.error,
                             checked_at |-> now,
                             inv |-> p])
                     ELSE results
       /\ probes' = [probes EXCEPT ![p].pc = AfterSaveResult(ok)]
  /\ UNCHANGED << now, schedVars, services, nextInv, broadcast, hubVars,
                  clientVars, nAccepted, lateSends >>

\* values of icmp_packet_count a service row can carry
PacketCounts == { -1, 0, 1, 10, 11 }

\* service rows for the probe library: one recipe per method and per choice
\* of the fields its probe reads
BaseConfig ==
  [host |-> "h", method |-> "TCP", url |-> "/", interval |-> TickPeriod,
   expected_status |-> 200, status_mapping |-> EmptyJSON,
   tcp_send_data |-> << >>, tcp_expect_data |-> << >>,
   udp_send_data |-> << >>, icmp_packet_count |-> 0, dns_query_type |-> "A",
   dns_expected_result |-> << >>, kafka_topic |-> "",
   current_status |-> StatusUnknown, last_checked |-> Nil]

ProbeMethods == { "WEBSOCKET", "WSS", "GRPC", "SMTP", "FTP", "SSH",
                  "REDIS", "MYSQL", "POSTGRES", "MONGODB", "TELNET" }

ProbeConfigs ==
  { [BaseConfig EXCEPT !.method = m] : m \in ProbeMethods }
  \cup { [BaseConfig EXCEPT !.method = m, !.expected_status = e,
                            !.status_mapping = sm] :
           m \in {"HTTP", "HTTPS"}, e \in {200, 503}, sm \in StatusMappings }
  \cup { [BaseConfig EXCEPT !.method = "TCP", !.tcp_send_data = d,
                            !.tcp_expect_data = x] :
           d \in { << >>, << "p" >> }, x \in { << >>, << "o", "k" >> } }
  \cup { [BaseConfig EXCEPT !.method = "ICMP", !.icmp_packet_count = n] :
           n \in PacketCounts }
  \cup { [BaseConfig EXCEPT !.method = "UDP", !.udp_send_data = d] :
           d \in { << >>, << "x" >> } }
  \cup { [BaseConfig EXCEPT !.method = "DNS", !.dns_query_type = t,
                            !.dns_expected_result = w] :
           t \in {"A", "AAAA", "CNAME", "MX", "NS", "TXT", "SRV"},
           w \in { << >>, IPString(IPa), NameA } }
  \cup { [BaseConfig EXCEPT !.method = "KAFKA", !.kafka_topic = t] :
           t \in {"", "t1"} }

\* The state in which a tick has just dispatched the probe of service 1.
InitProbe ==
  /\ now = TickPeriod
  /\ started = TRUE
  /\ starts = 1
  /\ cancelled = FALSE
  /\ tickPending = FALSE
  /\ schedPc = "run"
  /\ twin = NoTwin
  /\ services \in [Services -> ProbeConfigs]
  /\ probes = [p \in ProbeIds |->
       IF p = 1
       THEN [pc |-> "chk_db", sid |-> 1, at |-> TickPeriod, status |-> "none",
             prevStatus |-> StatusUnknown, prevChecked |-> Nil,
             chkStore |-> "none", chkSend |-> "none",
             finStore |-> "none", finSend |-> "none",
             result |-> NoResult, call |-> NoCall]
       ELSE IdleProbe]
  /\ nextInv = 2
  /\ results = << >>
  /\ broadcast = << >>
  /\ bhPc = "recv"
  /\ bhUpd = NoUpdate
  /\ bhTodo = {}
  /\ bhStart = {}
  /\ clients = {}
  /\ conn = [c \in Clients |-> "none"]
  /\ adapter = [c \in Clients |-> "idle"]
  /\ sockFill = [c \in Clients |-> 0]
  /\ written = [c \in Clients |-> << >>]
  /\ failedOn = [c \in Clients |-> 0]
  /\ nAccepted = 0
  /\ lateSends = {}
  /\ errBudget = MaxStoreErrors

\* one run of performHealthcheck while time passes
NextProbe ==
  \/ Tock
  \/ \E p \in ProbeIds : CheckingStore(p)
  \/ \E p \in ProbeIds : CheckingPublish(p)
  \/ \E p \in ProbeIds : InvokeProbe(p)
  \/ \E p \in ProbeIds : ReturnFromProbe(p)
  \/ \E p \in ProbeIds : CreateHealthcheckResult(p)
  \/ \E p \in ProbeIds : TerminalStore(p)
  \/ \E p \in ProbeIds : TerminalPublish(p)

SpecProbe == InitProbe /\ [][NextProbe]_vars

\* ------------------------------------------------------------------ C22
\* invocations that carry the detailed result and call records
Detailed == { p \in ProbeIds : "call" \in DOMAIN probes[p] }

\* the probe function of invocation p has returned
Returned(p) == p \in Detailed /\ probes[p].pc \in {"insert", "fin_db", "fin_pub", "done"}
                 /\ probes[p].call.fn # ""

\* key is the decimal numeral of c
DigitValue(ch) == CHOOSE d \in 0..9 : DigitChars[d + 1] = ch

RECURSIVE Atoi(_)
Atoi(s) == IF Len(s) = 1 THEN DigitValue(s[1])
           ELSE 10 * Atoi(SubSeq(s, 1, Len(s) - 1)) + DigitValue(s[Len(s)])

IsStringFormOf(key, c) ==
  /\ Len(key) >= 1
  /\ Len(key) = 1 \/ key[1] # "0"
  /\ Atoi(key) = c

\* the tags (alive, degraded, dead) the mapping of a service gives to code c
MappedTags(service, c) ==
  { service.status_mapping[k].v :
      k \in { k \in DOMAIN service.status_mapping :
                /\ IsStringFormOf(k, c)
                /\ service.status_mapping[k].kind = "string"
                /\ service.status_mapping[k].v \in {"alive", "degraded", "dead"} } }

\* invocation p got an HTTP response
GotResponse(p) ==
  /\ Returned(p)
  /\ probes[p].call.fn = "performHTTPHealthcheck"
  /\ probes[p].call.failed = ""

\* C22: for an HTTP or HTTPS response with code c the status is the tag the
\* status mapping gives to the string form of c, also when c is the expected
\* status; with no such entry it is Alive when c is the expected status,
\* otherwise Degraded when c is 429 or 503, otherwise Dead.
C22_MappingThenExpectedThenSpecial ==
  \A p \in Detailed :
    GotResponse(p) =>
      LET service == services[probes[p].sid]
          c == probes[p].call.env.answer.code
          tags == MappedTags(service, c) IN
      probes[p].status =
        IF tags # {} THEN CHOOSE t \in tags : TRUE
        ELSE IF c = service.expected_status THEN StatusAlive
        ELSE IF c \in {429, 503} THEN StatusDegraded
        ELSE StatusDead

\* a response whose code is the expected status and is mapped to degraded
C22_Witness ==
  \E p \in Detailed :
    /\ GotResponse(p)
    /\ probes[p].call.env.answer.code = services[probes[p].sid].expected_status
    /\ MappedTags(services[probes[p].sid], probes[p].call.env.answer.code) = {"degraded"}
    /\ probes[p].status = StatusDegraded

\* ------------------------------------------------------------------ C23
\* the probe that matches each of the seventeen method tags
MatchingProbe(method) ==
  CASE method \in {"HTTP", "HTTPS"} -> "performHTTPHealthcheck"
    [] method = "TCP" -> "performTCPHealthcheck"
    [] method = "UDP" -> "performUDPHealthcheck"
    [] method = "ICMP" -> "performICMPHealthcheck"
    [] method = "DNS" -> "performDNSHealthcheck"
    [] method \in {"WEBSOCKET", "WSS"} -> "performWebSocketHealthcheck"
    [] method = "GRPC" -> "performGRPCHealthcheck"
    [] method = "SMTP" -> "performSMTPHealthcheck"
    [] method = "FTP" -> "performFTPHealthcheck"
    [] method = "SSH" -> "performSSHHealthcheck"
    [] method = "REDIS" -> "performRedisHealthcheck"
    [] method = "MYSQL" -> "performMySQLHealthcheck"
    [] method = "POSTGRES" -> "performPostgresHealthcheck"
    [] method = "MONGODB" -> "performMongoDBHealthcheck"
    [] method = "KAFKA" -> "performKafkaHealthcheck"
    [] OTHER -> ""

\* invocation p is past the switch on the method
PastSwitch(p) ==
  p \in Detailed /\ probes[p].pc \in {"call", "insert", "fin_db", "fin_pub", "done"}

\* invocation p took the default case of the switch
Unsupported(p) ==
  /\ probes[p].call.fn = ""
  /\ probes[p].status = StatusDead
  /\ probes[p].result.error # << >>
  /\ probes[p].call.io = << >>

\* C23: every one of the seventeen method tags is probed by its own probe
\* function, WSS by the WebSocket probe; only a method outside the set is
\* Dead with an unsupported-method error and no I/O.
C23_EveryTagHasItsProbe ==
  \A p \in Detailed :
    PastSwitch(p) =>
      LET method == services[probes[p].sid].method IN
      IF MatchingProbe(method) # ""
      THEN probes[p].call.fn = MatchingProbe(method)
      ELSE Unsupported(p)

\* ------------------------------------------------------------------ C24
\* the probe of invocation p returned and its result is not in the table:
\* the insert failed
SaveFailed(p) ==
  /\ probes[p].status \in ProbeOutcomes
  /\ probes[p].pc \in {"fin_db", "fin_pub", "done"}
  /\ ~\E i \in DOMAIN results : results[i].inv = p

\* C24: a failed write of the result does not end the invocation: the
\* terminal update of the service row is still made and, once the row is
\* updated, the terminal status is still published.
C24_FailedSaveDoesNotAbort ==
  \A p \in ProbeIds :
    (SaveFailed(p) /\ probes[p].pc = "done") =>
      /\ probes[p].finStore # "none"
      /\ probes[p].finStore = "ok" => probes[p].finSend # "none"

\* the insert failed, the row holds the terminal status and the terminal
\* update was accepted by the channel
C24_Witness ==
  \E p \in ProbeIds :
    /\ SaveFailed(p) /\ probes[p].pc = "done"
    /\ probes[p].finStore = "ok" /\ probes[p].finSend = "accepted"
    /\ services[probes[p].sid].current_status = probes[p].status

\* ------------------------------------------------------------------ C25
\* number of repository calls that have failed so far
FailedCalls == MaxStoreErrors - errBudget

\* the terminal update of the service row was given up by invocation p
Abandoned(p) == probes[p].pc = "done" /\ probes[p].finStore = "fail"

\* C25: a failed terminal update of the service row is retried once and given
\* up only when the retry fails too; so while no more than one repository
\* call has failed, no terminal update has been given up.
C25_AbandonedOnlyAfterRetry ==
  FailedCalls <= 1 => \A p \in ProbeIds : ~Abandoned(p)

\* ------------------------------------------------------------------ C26
\* invocation p is complete and none of its repository calls failed
CompleteAndPersisted(p) ==
  /\ p \in Detailed
  /\ probes[p].pc = "done"
  /\ probes[p].chkStore = "ok" /\ probes[p].finStore = "ok"
  /\ \E i \in DOMAIN results : results[i].inv = p

RowOf(p) == results[CHOOSE i \in DOMAIN results : results[i].inv = p]

\* the terminal updates of invocation p that are in the channel
TerminalUpdatesOf(p) ==
  { u \in SeqRange(broadcast) : u.inv = p /\ u.status # StatusChecking }

\* C26: for a completed probe with no persistence failure the status of the
\* inserted result, the status written to the service row and the status of
\* the published terminal update are one value, and all three carry the id of
\* the probed service.
C26_OneStatusEverywhere ==
  \A p \in Detailed :
    CompleteAndPersisted(p) =>
      LET sid == probes[p].sid
          row == RowOf(p) IN
      /\ row.status \in ProbeOutcomes
      /\ row.service_id = sid
      /\ services[sid].current_status = row.status
      /\ \A s \in Services \ {sid} : services[s].current_status = StatusUnknown
      /\ \A u \in TerminalUpdatesOf(p) :
           u.status = row.status /\ u.service_id = sid
      /\ probes[p].finSend = "accepted" => TerminalUpdatesOf(p) # {}

\* a completed probe whose Degraded status is in the result, in the row and
\* in the update in the channel
C26_Witness ==
  \E p \in Detailed :
    /\ CompleteAndPersisted(p)
    /\ RowOf(p).status = StatusDegraded
    /\ services[probes[p].sid].current_status = StatusDegraded
    /\ \E u \in TerminalUpdatesOf(p) : u.status = StatusDegraded

\* ------------------------------------------------------------------ C27
\* C27: the latency in the result is the time from the start of the probe
\* function to its return, whether the probe succeeded or failed.
C27_LatencyCoversTheProbe ==
  \A p \in Detailed :
    Returned(p) =>
      /\ probes[p].result.response_time >= 0
      /\ probes[p].result.response_time
           = Milliseconds(probes[p].call.finish - probes[p].call.start)

\* ------------------------------------------------------------------ C28
\* an I/O call of the probe function of invocation p returned an error
ReportedError(p) == Returned(p) /\ probes[p].call.failed # ""

\* the text of the error the network gave is in the error of the result
ErrorRecorded(p) ==
  /\ probes[p].result.error # << >>
  /\ probes[p].result.error[Len(probes[p].result.error)] = probes[p].call.env.text

\* the invocation goes on to the insert and the scheduler loop is untouched
NotPropagated(p) ==
  /\ probes[p].pc \in {"insert", "fin_db", "fin_pub", "done"}
  /\ schedPc = "run"

\* the two calls whose failure comes after a successful first exchange
SecondPhase(p) ==
  \/ /\ probes[p].call.fn = "performPostgresHealthcheck"
     /\ probes[p].call.failed = "db.QueryRowContext"
  \/ /\ probes[p].call.fn = "performKafkaHealthcheck"
     /\ probes[p].call.failed = "client.Partitions"

\* C28 as stated: a probe that reports a transport error, TLS failure or
\* timeout ends Dead with the error text in the result and nothing reaches
\* the scheduler; a result with status Alive has an empty error.
C28_ErrorMeansDead ==
  \A p \in Detailed :
    /\ ReportedError(p) =>
         /\ probes[p].result.status = StatusDead
         /\ ErrorRecorded(p)
         /\ NotPropagated(p)
    /\ (Returned(p) /\ probes[p].result.status = StatusAlive) =>
         probes[p].result.error = << >>

\* C28, amended: the status is Dead except for a failed SELECT version() after
\* a successful PostgreSQL ping and a failed partition lookup after a
\* successful Kafka topic listing, which are Degraded; in every case the
\* error text is in the result and nothing reaches the scheduler.
C28_ErrorMeansDeadOrDegraded ==
  \A p \in Detailed :
    /\ ReportedError(p) =>
         /\ probes[p].result.status =
              IF SecondPhase(p) THEN StatusDegraded ELSE StatusDead
         /\ ErrorRecorded(p)
         /\ NotPropagated(p)
    /\ (Returned(p) /\ probes[p].result.status = StatusAlive) =>
         probes[p].result.error = << >>

\* a PostgreSQL probe whose query timed out after a successful ping: Degraded
\* with the timeout in the result's error
C28_Witness ==
  \E p \in Detailed :
    /\ ReportedError(p)
    /\ probes[p].call.fn = "performPostgresHealthcheck"
    /\ probes[p].call.failed = "db.QueryRowContext"
    /\ probes[p].result.status = StatusDegraded
    /\ probes[p].result.error = << "PostgreSQL query failed: ", "i/o timeout" >>

\* ------------------------------------------------------------------ C29
\* invocation p ran the UDP probe of a service with no udp_send_data
UDPWithoutSendData(p) ==
  /\ Returned(p)
  /\ probes[p].call.fn = "performUDPHealthcheck"
  /\ services[probes[p].sid].udp_send_data = << >>

\* C29: a UDP probe with empty udp_send_data is always Dead with the
\* send-data-required error, before any I/O (no dial, no deadline, no
\* write), whatever the network does.
C29_MissingSendDataBeforeIO ==
  \A p \in Detailed :
    UDPWithoutSendData(p) =>
      /\ probes[p].result.status = StatusDead
      /\ probes[p].result.error = << "UDP send data is required" >>
      /\ probes[p].call.io = << >>

\* ------------------------------------------------------------------ C30
\* the query types the DNS probe is to support
ClaimedQueryTypes == {"A", "AAAA", "CNAME", "MX", "TXT", "NS"}

\* invocation p ran the DNS probe
RanDNS(p) == Returned(p) /\ probes[p].call.fn = "performDNSHealthcheck"

\* the answer of the resolver matches the expected result of the service
DNSMatch(type, answer, want) ==
  CASE type \in {"A", "AAAA"} ->
         \E i \in DOMAIN answer.ips : IPString(answer.ips[i]) = want
    [] type = "CNAME" ->
         Len(answer.records) = 1 /\ answer.records[1] = want
    [] type \in {"MX", "NS"} ->
         \E i \in DOMAIN answer.records : answer.records[i] = want
    [] type = "TXT" ->
         \E i \in DOMAIN answer.records : Contains(answer.records[i], want)

\* the status the DNS probe is to return for the query types in the set
DNSStatusFor(types, p) ==
  LET service == services[probes[p].sid]
      type == service.dns_query_type
      want == service.dns_expected_result
      answer == probes[p].call.env.answer IN
  IF type \notin types \/ probes[p].call.env.fail # 0 THEN StatusDead
  ELSE IF want = << >> \/ DNSMatch(type, answer, want) THEN StatusAlive
  ELSE StatusDead

\* C30: for the query types A, AAAA, CNAME, MX, TXT and NS a successful
\* resolution is Alive when dns_expected_result is empty or matches (A and
\* AAAA: some address equals it; CNAME: equality; MX and NS: some record host
\* equals it; TXT: some record contains it) and Dead when it is set and
\* nothing matches; a resolution error or another query type is Dead.
C30_DNSStatus ==
  \A p \in Detailed :
    RanDNS(p) => probes[p].result.status = DNSStatusFor(ClaimedQueryTypes, p)

\* ------------------------------------------------------------------ C31
\* invocation p ran the TCP probe
RanTCP(p) == Returned(p) /\ probes[p].call.fn = "performTCPHealthcheck"

\* the reply the peer sent holds the expected data within the buffer
ReplyMatches(p) ==
  LET service == services[probes[p].sid]
      reply == probes[p].call.env.answer.records IN
  /\ Len(reply) = 1
  /\ Contains(ReadInto(reply[1]), service.tcp_expect_data)

\* dial, write and read of invocation p, as far as they were needed, worked
\* and the reply held the expected data
TCPHealthy(p) ==
  LET service == services[probes[p].sid]
      fail == probes[p].call.env.fail IN
  /\ fail # 1
  /\ service.tcp_send_data # << >> =>
       /\ fail # 2
       /\ service.tcp_expect_data # << >> => (fail # 3 /\ ReplyMatches(p))

\* C31: the TCP probe is Alive exactly when the dial succeeds and, with send
\* data, the write succeeds and, with expect data as well, the read succeeds
\* and holds the expected data; otherwise it is Dead with an error, which for
\* a miss names the expected response.  Expect data without send data is not
\* looked at.
C31_TCPAliveIffAllStepsPass ==
  \A p \in Detailed :
    RanTCP(p) =>
      LET service == services[probes[p].sid] IN
      /\ probes[p].result.status = IF TCPHealthy(p) THEN StatusAlive ELSE StatusDead
      /\ probes[p].result.status = StatusDead => probes[p].result.error # << >>
      /\ (probes[p].result.status = StatusDead /\ probes[p].call.env.fail = 0) =>
           probes[p].result.error = << "expected response not found in response" >>
      /\ service.tcp_send_data = << >> =>
           probes[p].call.io \in { << >>, << "net.DialTimeout" >> }

\* a TCP probe that is Alive with expect data and no send data without ever
\* reading, and one that is Dead because the reply missed the expected data
C31_Witness ==
  \E p \in Detailed :
    /\ RanTCP(p)
    /\ \/ /\ services[probes[p].sid].tcp_send_data = << >>
          /\ services[probes[p].sid].tcp_expect_data # << >>
          /\ probes[p].result.status = StatusAlive
       \/ /\ probes[p].call.env.fail = 0
          /\ probes[p].result.status = StatusDead

\* ------------------------------------------------------------------ C32
\* invocation p ran a probe other than the HTTP one
RanNonHTTP(p) == Returned(p) /\ probes[p].call.fn # "performHTTPHealthcheck"

\* the secondary checks: a gRPC health status other than SERVING, a failed
\* PostgreSQL query after a successful ping, a Kafka topic that is missing or
\* has no partition
SecondaryCheckFailed(p) ==
  LET call == probes[p].call IN
  \/ call.fn = "performGRPCHealthcheck" /\ call.env.fail = 0
       /\ call.env.answer.word = "bad"
  \/ call.fn = "performPostgresHealthcheck" /\ call.failed = "db.QueryRowContext"
  \/ call.fn = "performKafkaHealthcheck" /\ call.env.fail = 0
       /\ call.env.answer.word \in {"bad", "empty"}

\* the partitions of the Kafka topic could not be looked up
PartitionLookupFailed(p) ==
  /\ probes[p].call.fn = "performKafkaHealthcheck"
  /\ probes[p].call.failed = "client.Partitions"

\* a call of the connectivity step (dial, ping, controller metadata) failed
ConnectivityFailed(p) ==
  /\ probes[p].call.failed # ""
  /\ probes[p].call.failed \notin {"db.QueryRowContext", "client.Topics",
                                   "client.Partitions"}

\* a gRPC, PostgreSQL or Kafka probe none of whose calls failed and whose
\* peer answered as hoped
FullSuccess(p) ==
  /\ probes[p].call.fn \in {"performGRPCHealthcheck", "performPostgresHealthcheck",
                            "performKafkaHealthcheck"}
  /\ probes[p].call.env.fail = 0
  /\ probes[p].call.env.answer.word = "good"

\* C32 as stated: a non-HTTP probe is Degraded exactly when its secondary
\* check failed after a successful connectivity step; a failed connectivity
\* step is Dead and full success is Alive.
C32_DegradedIffSecondaryCheckFailed ==
  \A p \in Detailed :
    RanNonHTTP(p) =>
      /\ probes[p].result.status = StatusDegraded <=> SecondaryCheckFailed(p)
      /\ ConnectivityFailed(p) => probes[p].result.status = StatusDead
      /\ FullSuccess(p) => probes[p].result.status = StatusAlive

\* C32, amended: a failed lookup of the partitions of the Kafka topic is
\* Degraded too.
C32_DegradedIffSecondaryOrLookupFailed ==
  \A p \in Detailed :
    RanNonHTTP(p) =>
      /\ probes[p].result.status = StatusDegraded
           <=> (SecondaryCheckFailed(p) \/ PartitionLookupFailed(p))
      /\ ConnectivityFailed(p) => probes[p].result.status = StatusDead
      /\ FullSuccess(p) => probes[p].result.status = StatusAlive

\* a Kafka probe that found its topic without partitions and is Degraded
C32_Witness ==
  \E p \in Detailed :
    /\ RanNonHTTP(p)
    /\ probes[p].call.fn = "performKafkaHealthcheck"
    /\ probes[p].call.env.answer.word = "empty"
    /\ probes[p].result.status = StatusDegraded

\* ------------------------------------------------------------------ C33
\* invocation p ran the ICMP probe
RanICMP(p) == Returned(p) /\ probes[p].call.fn = "performICMPHealthcheck"

\* the packet count on the command line of the ping of invocation p
PacketsSent(p) == Atoi(probes[p].call.args[2])

\* C33: whatever icmp_packet_count is, the ping is run with a packet count in
\* 1..10, and with 3 when the field is unset (0).
C33_PacketCountInRange ==
  \A p \in Detailed :
    RanICMP(p) =>
      /\ PacketsSent(p) \in 1..10
      /\ services[probes[p].sid].icmp_packet_count = 0 => PacketsSent(p) = 3

\* ------------------------------------------------------------------ C34
\* a step of invocation p (one of the steps of performHealthcheck)
ProbeStepOf(p) == probes'[p] # probes[p]

\* the columns of a services row that describe the service
SpecFields(row) == [host |-> row.host, method |-> row.method,
                    url |-> row.url, interval |-> row.interval]

\* the step leaves the results alone or appends one row of service s
AppendsOnlyFor(s) ==
  \/ results' = results
  \/ /\ Len(results') = Len(results) + 1
     /\ SubSeq(results', 1, Len(results)) = results
     /\ results'[Len(results')].service_id = s

\* C34: a step of a probe of service S changes, of the store, only the status
\* columns of S's row and appends only results of S; every other row, the
\* describing columns of every row and the subscriber set stay as they were.
C34_ProbeTouchesOnlyItsService ==
  [][\A p \in ProbeIds :
       ProbeStepOf(p) =>
         /\ DOMAIN services' = DOMAIN services
         /\ \A s \in DOMAIN services :
              /\ s # probes[p].sid => services'[s] = services[s]
              /\ SpecFields(services'[s]) = SpecFields(services[s])
         /\ AppendsOnlyFor(probes[p].sid)
         /\ clients' = clients]_vars

C34_Witness ==
  /\ \A p \in 1..NumFleet : Finished(p) /\ probes[p].finStore = "ok"
  /\ DOMAIN services = 1..NumFleet
  /\ services[1].current_status # services[2].current_status
  /\ \A s \in 1..NumFleet : \E i \in DOMAIN results : results[i].service_id = s
  /\ clients = {1}

\* ------------------------------------------------------------------ C35
\* C35: a service whose current_status a probe has set to checking eventually
\* has a current_status of alive, dead or degraded, also when a repository
\* call fails or Stop() is called while the probe is in flight.
C35_CheckingEventuallyEnds ==
  \A s \in 1..NumFleet :
    (services[s].current_status = StatusChecking)
      ~> (services[s].current_status \in ProbeOutcomes)

\* ------------------------------------------------------------------ C36
\* the invocations of service s
ProbesOf(s) == { p \in ProbeIds : probes[p].pc # "idle" /\ probes[p].sid = s }

\* C36: once every probe of a service has finished, the current_status of
\* the service is the status of the result appended last for it.
C36_LatestIsNewestResult ==
  \A s \in Services :
    (/\ ProbesOf(s) # {}
     /\ \A p \in ProbesOf(s) : Finished(p)
     /\ ResultsOf(s) # << >>)
      => services[s].current_status = ResultsOf(s)[Len(ResultsOf(s))].status

\* ------------------------------------------------------------------ C37
\* a handler is inside AddClient / inside the deferred RemoveClient
InAddClient(c) == adapter[c] = "adding"

InRemoveClient(c) == adapter[c] = "reading" /\ conn[c] \in {"broken", "closed"}

\* C37: a call of AddClient or RemoveClient returns, also while the broadcast
\* loop is in a write to another subscriber that has stopped reading.
C37_SubscribeAndDetachReturn ==
  \A c \in Clients :
    /\ InAddClient(c) ~> (adapter[c] = "reading")
    /\ InRemoveClient(c) ~> (adapter[c] = "done")

\* ------------------------------------------------------------------ C38
\* the scheduler loops and the broadcast loops that are running
SchedulerLoops ==
  (IF schedPc = "run" THEN 1 ELSE 0) + (IF twin.sched = "run" THEN 1 ELSE 0)

BroadcastLoops ==
  (IF bhPc \in {"recv", "iter"} THEN 1 ELSE 0) + (IF twin.bh = "run" THEN 1 ELSE 0)

\* C38: whatever calls of Start() and Stop() are made, at most one scheduler
\* loop and at most one broadcast loop are running, and no service is
\* dispatched twice at one tick instant.
C38_AtMostOneLoopOfEachKind ==
  /\ SchedulerLoops <= 1
  /\ BroadcastLoops <= 1
  /\ \A p, q \in ProbeIds :
       (/\ p # q
        /\ probes[p].pc # "idle"
        /\ probes[q].pc # "idle"
        /\ probes[p].sid = probes[q].sid)
         => probes[p].at # probes[q].at

\* ------------------------------------------------------------------ C39
\* the updates in the channel that invocation p published
UpdatesOf(p) == { i \in DOMAIN broadcast : broadcast[i].inv = p }

\* C39: the status a probe hands back, the status of the result it inserts,
\* the status its terminal update stores in the service row and the status of
\* its terminal StatusUpdate are alive, dead or degraded; unknown is never
\* written, and checking is written only by the update at the probe's start
\* (the first update the probe publishes).
C39_TerminalStatusIsAnOutcome ==
  \A p \in Detailed :
    /\ Returned(p) => probes[p].status \in ProbeOutcomes
    /\ \A i \in DOMAIN results :
         results[i].inv = p => results[i].status \in ProbeOutcomes
    /\ probes[p].chkStore = "ok" =>
         services[probes[p].sid].current_status # StatusUnknown
    /\ probes[p].finStore = "ok" =>
         services[probes[p].sid].current_status \in ProbeOutcomes
    /\ \A i \in UpdatesOf(p) :
         /\ broadcast[i].status \in ProbeOutcomes \cup {StatusChecking}
         /\ broadcast[i].status = StatusChecking =>
              /\ probes[p].chkSend = "accepted"
              /\ \A j \in UpdatesOf(p) : i <= j

\* a probe of an HTTP service whose mapping names "unknown" for the status
\* code the service answered has stored and published its terminal status
C39_Witness ==
  \E p \in Detailed :
    /\ Finished(p)
    /\ probes[p].call.fn = "performHTTPHealthcheck"
    /\ probes[p].call.failed = ""
    /\ LET key == Sprintf_d(probes[p].result.status_code)
           m == services[probes[p].sid].status_mapping IN
       /\ key \in DOMAIN m
       /\ m[key].kind = "string"
       /\ m[key].v \in {"unknown", "checking"}
    /\ probes[p].finStore = "ok" /\ probes[p].finSend = "accepted"
    /\ \E i \in DOMAIN results : results[i].inv = p

\* ------------------------------------------------------------------ C40
\* this step puts an update into the channel
Publishes == Len(broadcast') > Len(broadcast)

\* C40: an update is published only for a service that is in the store at
\* that moment; the terminal update of a probe whose service was deleted
\* while it ran is neither stored nor put into the channel.
C40_NoUpdateForDeletedService ==
  [][Publishes =>
       broadcast'[Len(broadcast')].service_id \in DOMAIN services]_vars

====
